---- MODULE Spec2Model ----
(***************************************************************************)
(* Model of the test execution engine of api_auto_test                     *)
(* (pkg/executor/executor.go): weight sort, dependency resolution,         *)
(* sequential Execute with dependency gating and root-cause tracing,       *)
(* ExecuteConcurrent with its admission gate, and executeAPITest's retry   *)
(* loop.  The HTTP client and the validator are the environment: each call *)
(* of client.Do returns one of ClientOutcomes.                             *)
(***************************************************************************)
EXTENDS Integers, Sequences, FiniteSets, TLC

(* ------------------------------ bounds --------------------------------- *)

\* number of configured tests (config.APIs)
NumTests == 3

\* weights are drawn from 0..MaxWeight
MaxWeight == 1

\* retry_policy.max_retries is drawn from -MaxRetries..MaxRetries
MaxRetries == 2

\* ExecuteConcurrent's maxConcurrency is drawn from 0..MaxWorkers
MaxWorkers == 2

(* ------------------------------ values --------------------------------- *)

\* the nil pointer / nil error / nil map entry
Nil == [nil |-> TRUE]

\* names of the configured tests, in declaration order (names are unique keys)
TestNames == <<"A", "B", "C", "D", "E", "F">>

\* a depends_on value that names no configured test
MissingName == "missing"

ConfiguredNames == {TestNames[i] : i \in 1..NumTests}

VARIABLES
    apis,            \* e.config.APIs: sequence of APITest
    call,            \* the method main invokes: "Execute" | "ExecuteConcurrent" | ...
    pc,              \* position of the calling goroutine inside that method
    executionOrder,  \* Execute's local executionOrder
    idx,             \* Execute's / ExecuteConcurrent's loop position (1-based)
    results,         \* e.results: map name -> TestResult
    report,          \* the TestReport being built
    httpCalls,       \* per test name: number of client.Do calls made for it
    valCalls,        \* per test name: number of Validate calls made for it
    maxConcurrency,  \* ExecuteConcurrent's argument
    semaphore,       \* number of tokens in the semaphore channel
    wg,              \* the WaitGroup counter
    upc,             \* per spawned goroutine (by index in config.APIs): its position
    uresult,         \* per goroutine: its local result
    rt               \* executeAPITest / findRootCause called directly: input and output

vars == <<apis, call, pc, executionOrder, idx, results, report, httpCalls, valCalls,
          maxConcurrency, semaphore, wg, upc, uresult, rt>>

(* ------------------------------ config --------------------------------- *)

\* config.RequestConfig: Headers and Query are nil or maps, Body is nil or a
\* value, BodySchema maps field paths to type names
RequestConfig(method, path, headers, query, body, bodySchema) ==
    [Method |-> method, Path |-> path, Headers |-> headers, Query |-> query,
     Body |-> body, BodySchema |-> bodySchema]

\* no body_schema
NoSchema == [f \in {} |-> ""]

\* the zero RequestConfig
ZeroRequest == RequestConfig("", "", Nil, Nil, Nil, NoSchema)

\* a request without placeholders, body or schema
PlainRequest == RequestConfig("GET", "/x", Nil, Nil, Nil, NoSchema)

\* config.APITest (the fields the executor reads), with a plain request
APITest(name, weight, dependsOn, maxRetries) ==
    [Name |-> name, Weight |-> weight, DependsOn |-> dependsOn,
     Request |-> PlainRequest, RetryPolicy |-> [MaxRetries |-> maxRetries]]

\* positions of a sequence
Indices(s) == 1..Len(s)

(* ------------------------- sortAPIsByWeight ---------------------------- *)

\* mutant of less: the comparison reversed (ascending weights)
lessAscending(a, b) == IF a.Weight # b.Weight THEN a.Weight < b.Weight ELSE FALSE

\* the comparison of sort.SliceStable: a sorts before b
less(a, b) == IF a.Weight # b.Weight THEN a.Weight > b.Weight ELSE FALSE

\* stable insertion of x into the sorted sequence s: x goes after every
\* element it is not less than
RECURSIVE insertStable(_, _)
insertStable(s, x) ==
    IF s = <<>> THEN <<x>>
    ELSE IF less(x, Head(s)) THEN <<x>> \o s
    ELSE <<Head(s)>> \o insertStable(Tail(s), x)

\* stable insertion sort (its result is the one stable sort of s by less)
RECURSIVE sortStable(_)
sortStable(s) ==
    IF s = <<>> THEN <<>>
    ELSE CHOOSE r \in { insertStable(sorted, s[Len(s)]) :
                        sorted \in {sortStable(SubSeq(s, 1, Len(s) - 1))} } : TRUE

\* mutant of sortAPIsByWeight: the declared list is returned as it is
sortAPIsByWeightDeclared(cfg) == cfg

sortAPIsByWeight(cfg) == sortStable(cfg)

(* ----------------------- resolveExecutionOrder ------------------------- *)

\* nameToIndex: a later entry with the same name overwrites an earlier one
nameToIndex(list) ==
    [n \in {list[i].Name : i \in Indices(list)} |->
        CHOOSE i \in Indices(list) :
            /\ list[i].Name = n
            /\ \A j \in Indices(list) : list[j].Name = n => j <= i]

\* mutant of visit: the test is appended before its dependency is visited
RECURSIVE visitDependentFirst(_, _, _)
visitDependentFirst(list, i, st) ==
    IF i \in st.visited THEN [st EXCEPT !.ok = TRUE]
    ELSE IF i \in st.visiting THEN [st EXCEPT !.ok = FALSE]
    ELSE CHOOSE r \in
           { IF ~s2.ok THEN s2
             ELSE [s2 EXCEPT !.visited = @ \cup {i}, !.visiting = @ \ {i}] :
             s2 \in { IF /\ list[i].DependsOn # ""
                         /\ list[i].DependsOn \in DOMAIN nameToIndex(list)
                      THEN visitDependentFirst(list, nameToIndex(list)[list[i].DependsOn],
                                 [st EXCEPT !.visiting = @ \cup {i},
                                            !.result = Append(@, list[i])])
                      ELSE [st EXCEPT !.visiting = @ \cup {i},
                                      !.result = Append(@, list[i]),
                                      !.ok = TRUE] } } : TRUE

\* the closure visit: st = [visited, visiting, result, ok].  The state left by
\* the visit of the dependency (s2) is bound through a singleton set, so that
\* it is computed once.
RECURSIVE visit(_, _, _)
visit(list, i, st) ==
    IF i \in st.visited THEN [st EXCEPT !.ok = TRUE]
    ELSE IF i \in st.visiting THEN [st EXCEPT !.ok = FALSE]
    ELSE CHOOSE r \in
           { IF ~s2.ok THEN s2
             ELSE [visited |-> s2.visited \cup {i},
                   visiting |-> s2.visiting \ {i},
                   result |-> Append(s2.result, list[i]),
                   ok |-> TRUE] :
             s2 \in { IF /\ list[i].DependsOn # ""
                         /\ list[i].DependsOn \in DOMAIN nameToIndex(list)
                      THEN visit(list, nameToIndex(list)[list[i].DependsOn],
                                 [st EXCEPT !.visiting = @ \cup {i}])
                      ELSE [st EXCEPT !.visiting = @ \cup {i}, !.ok = TRUE] } } : TRUE

\* mutant of resolveFrom: on a cycle what the walk has appended so far is returned
RECURSIVE resolveFromPartial(_, _, _)
resolveFromPartial(list, i, st) ==
    IF i > Len(list) THEN st.result
    ELSE IF i \in st.visited THEN resolveFromPartial(list, i + 1, st)
    ELSE CHOOSE r \in
           { IF ~s.ok THEN s.result ELSE resolveFromPartial(list, i + 1, s) :
             s \in {visit(list, i, st)} } : TRUE

\* the loop over the input that starts a visit at every unvisited index
RECURSIVE resolveFrom(_, _, _)
resolveFrom(list, i, st) ==
    IF i > Len(list) THEN st.result
    ELSE IF i \in st.visited THEN resolveFrom(list, i + 1, st)
    ELSE CHOOSE r \in
           { IF ~s.ok THEN list ELSE resolveFrom(list, i + 1, s) :
             s \in {visit(list, i, st)} } : TRUE

resolveExecutionOrder(list) ==
    resolveFrom(list, 1, [visited |-> {}, visiting |-> {}, result |-> <<>>, ok |-> TRUE])

(* ---------------------------- Result Store ------------------------------ *)

EmptyMap == [n \in {} |-> Nil]

\* m[k] = v of a Go map
MapPut(m, k, v) == [n \in DOMAIN m \cup {k} |-> IF n = k THEN v ELSE m[n]]

\* storeResult: e.results[result.Name] = result
storeResult(store, result) == MapPut(store, result.Name, result)

\* getResult: e.results[name], nil when absent
getResult(store, name) == IF name \in DOMAIN store THEN store[name] ELSE Nil

(* ------------------------- strings (Go: strings) ------------------------ *)

\* s[i-1:j] of Go, positions counted in runes from 1; empty when out of range
Sub(s, i, j) ==
    IF i > j \/ i > Len(s) \/ j < 1 THEN ""
    ELSE SubSeq(s, IF i < 1 THEN 1 ELSE i, IF j > Len(s) THEN Len(s) ELSE j)

\* the rune at position i (1-based) of s, "" past its end
At(s, i) == Sub(s, i, i)

\* "~" and "^" stand for runes that take three bytes in UTF-8 (CJK characters,
\* which a string of this module cannot hold); every other rune takes one byte
MultiByteRunes == {"~", "^"}

Digits == <<"0", "1", "2", "3", "4", "5", "6", "7", "8", "9">>

IsDigit(ch) == \E d \in 1..10 : Digits[d] = ch

DigitValue(ch) == (CHOOSE d \in 1..10 : Digits[d] = ch) - 1

WhiteSpace == {" ", "\t", "\n"}

\* strings.HasPrefix
HasPrefix(s, prefix) == Len(s) >= Len(prefix) /\ Sub(s, 1, Len(prefix)) = prefix

\* strings.TrimPrefix
TrimPrefix(s, prefix) ==
    IF HasPrefix(s, prefix) THEN Sub(s, Len(prefix) + 1, Len(s)) ELSE s

\* strings.Trim(s, cutset): drop the leading and trailing runes that are in cutset
RECURSIVE Trim(_, _)
Trim(s, cutset) ==
    IF s = "" THEN s
    ELSE IF At(s, 1) \in cutset THEN Trim(Sub(s, 2, Len(s)), cutset)
    ELSE IF At(s, Len(s)) \in cutset THEN Trim(Sub(s, 1, Len(s) - 1), cutset)
    ELSE s

\* strings.TrimSpace
TrimSpace(s) == Trim(s, WhiteSpace)

\* position of the first sep at or after position i, 0 when there is none
RECURSIVE IndexFrom(_, _, _)
IndexFrom(s, sep, i) ==
    IF i + Len(sep) - 1 > Len(s) THEN 0
    ELSE IF Sub(s, i, i + Len(sep) - 1) = sep THEN i
    ELSE IndexFrom(s, sep, i + 1)

\* strings.Split(s, sep) for a non-empty sep
RECURSIVE Split(_, _)
Split(s, sep) ==
    LET i == IndexFrom(s, sep, 1)
    IN  IF i = 0 THEN <<s>>
        ELSE <<Sub(s, 1, i - 1)>> \o Split(Sub(s, i + Len(sep), Len(s)), sep)

\* strings.SplitN(s, sep, 2)
SplitN2(s, sep) ==
    LET i == IndexFrom(s, sep, 1)
    IN  IF i = 0 THEN <<s>>
        ELSE <<Sub(s, 1, i - 1), Sub(s, i + Len(sep), Len(s))>>

(* ------------------------ numbers (Go: strconv, fmt) -------------------- *)

\* the value of a non-empty string of decimal digits
RECURSIVE DigitsValue(_)
DigitsValue(s) ==
    IF s = "" THEN 0
    ELSE DigitsValue(Sub(s, 1, Len(s) - 1)) * 10 + DigitValue(At(s, Len(s)))

AllDigits(s) == s # "" /\ \A i \in 1..Len(s) : IsDigit(At(s, i))

\* strconv.Atoi: an optional sign and decimal digits, nothing else
Atoi(s) ==
    LET body == IF s # "" /\ At(s, 1) \in {"+", "-"} THEN Sub(s, 2, Len(s)) ELSE s
    IN  IF AllDigits(body)
        THEN [err |-> FALSE,
              v |-> IF At(s, 1) = "-" THEN 0 - DigitsValue(body) ELSE DigitsValue(body)]
        ELSE [err |-> TRUE, v |-> 0]

\* the decimal digits of n >= 0
RECURSIVE NatToString(_)
NatToString(n) ==
    IF n < 10 THEN Digits[n + 1] ELSE NatToString(n \div 10) \o Digits[(n % 10) + 1]

\* fmt.Sprintf("%d", n)
IntToString(n) == IF n < 0 THEN "-" \o NatToString(0 - n) ELSE NatToString(n)

\* strconv.ParseBool
ParseBool(s) ==
    IF s \in {"1", "t", "T", "TRUE", "true", "True"} THEN [err |-> FALSE, v |-> TRUE]
    ELSE IF s \in {"0", "f", "F", "FALSE", "false", "False"} THEN [err |-> FALSE, v |-> FALSE]
    ELSE [err |-> TRUE, v |-> FALSE]

(* -------------------------- values (interface{}) ------------------------ *)

\* a Go value held in an interface{}: its dynamic type t and its value v.
\* A float64 is held in tenths (125 is 12.5); a map is a function from its
\* keys, a slice a sequence.
StringValue(s) == [t |-> "string", v |-> s]
IntValue(n) == [t |-> "int", v |-> n]
Int64Value(n) == [t |-> "int64", v |-> n]
Float64Value(tenths) == [t |-> "float64", v |-> tenths]
BoolValue(b) == [t |-> "bool", v |-> b]
MapValue(m) == [t |-> "map", v |-> m]
SliceValue(s) == [t |-> "slice", v |-> s]

IsType(value, type) == IF value = Nil THEN FALSE ELSE value.t = type

\* f == float64(int64(f)): the float is a whole number
IsWhole(tenths) == tenths % 10 = 0

\* int64(f) of a float64: truncation toward zero
Truncate(tenths) ==
    IF tenths >= 0 THEN tenths \div 10 ELSE 0 - ((0 - tenths) \div 10)

\* strconv.ParseFloat on plain decimal notation with at most one digit after
\* the point (the forms the modelled inputs take), in tenths
ParseFloat(s) ==
    LET i == IndexFrom(s, ".", 1)
        whole == IF i = 0 THEN s ELSE Sub(s, 1, i - 1)
        frac == IF i = 0 THEN "0" ELSE Sub(s, i + 1, Len(s))
    IN  IF ~Atoi(whole).err /\ AllDigits(frac) /\ Len(frac) = 1
        THEN [err |-> FALSE,
              v |-> IF At(s, 1) = "-"
                    THEN Atoi(whole).v * 10 - DigitValue(frac)
                    ELSE Atoi(whole).v * 10 + DigitValue(frac)]
        ELSE [err |-> TRUE, v |-> 0]

(* ------------------------- random values (crypto/rand) ------------------ *)

\* the values one read of the random source can give, before the reduction to
\* the requested range
RandomDraws == {0, 4, 9}

\* the k-th value rand.IntValue(rand.Reader, max) yields on the random stream rnd
\* (a sequence of draws, read round and round)
randInt(rnd, k, max) == rnd[((k - 1) % Len(rnd)) + 1] % max

\* mutant of randomNumber: a leading 0 is kept
randomNumberKeepsZero(length, rnd, off) ==
    LET RECURSIVE digits(_)
        digits(i) ==
            IF i > length THEN ""
            ELSE Digits[randInt(rnd, off + i, 10) + 1] \o digits(i + 1)
    IN  digits(1)

\* randomNumber: `length` digits drawn from the stream after position off; a
\* leading 0 is replaced by a digit 1..9 drawn next.  (length >= 1 at every
\* call site; an empty result would make result[0] panic.)
randomNumber(length, rnd, off) ==
    LET RECURSIVE digits(_)
        digits(i) ==
            IF i > length THEN ""
            ELSE Digits[randInt(rnd, off + i, 10) + 1] \o digits(i + 1)
        result == digits(1)
    IN  IF At(result, 1) = "0"
        THEN Digits[randInt(rnd, off + length + 1, 9) + 2] \o Sub(result, 2, length)
        ELSE result

Charset == "abcdefghijklmnopqrstuvwxyzABCDEFGHIJKLMNOPQRSTUVWXYZ0123456789"

\* randomString: `length` runes of the charset
randomString(length, rnd, off) ==
    LET RECURSIVE runes(_)
        runes(i) ==
            IF i > length THEN ""
            ELSE At(Charset, randInt(rnd, off + i, Len(Charset)) + 1) \o runes(i + 1)
    IN  runes(1)

EmailDomains == <<"test.com", "example.com", "demo.org", "mail.com">>

PhonePrefixes ==
    <<"130", "131", "132", "133", "134", "135", "136", "137", "138", "139",
      "150", "151", "152", "153", "155", "156", "157", "158", "159",
      "180", "181", "182", "183", "184", "185", "186", "187", "188", "189">>

UsernamePrefixes == <<"user", "test", "dev", "admin", "guest", "demo">>

\* the length a $random.string / $random.number placeholder asks for
randomLength(param, default) ==
    IF param # "" /\ ~Atoi(param).err /\ Atoi(param).v > 0 THEN Atoi(param).v ELSE default

\* generateRandomValue: "" for an unknown kind.  The kinds read from the clock
\* or made of names and hex digits are given by one value of their format.
generateRandomValue(randomType, rnd) ==
    LET parts == Split(randomType, ".")
        baseType == parts[2]
        param == IF Len(parts) >= 3 THEN parts[3] ELSE ""
    IN  IF Len(parts) < 2 THEN ""
        ELSE IF baseType = "string" THEN randomString(randomLength(param, 8), rnd, 0)
        ELSE IF baseType = "number" THEN randomNumber(randomLength(param, 6), rnd, 0)
        ELSE IF baseType = "uuid" THEN "00000000-0000-4000-8000-000000000000"
        ELSE IF baseType = "timestamp" THEN "1700000000000"
        ELSE IF baseType = "datetime" THEN "2024-01-02 15:04:05"
        ELSE IF baseType = "date" THEN "2024-01-02"
        ELSE IF baseType = "email"
             THEN randomString(8, rnd, 1) \o "@"
                    \o EmailDomains[randInt(rnd, 1, Len(EmailDomains)) + 1]
        ELSE IF baseType = "phone"
             THEN PhonePrefixes[randInt(rnd, 1, Len(PhonePrefixes)) + 1]
                    \o randomNumber(8, rnd, 1)
        ELSE IF baseType = "name" THEN "name"
        ELSE IF baseType = "username"
             THEN UsernamePrefixes[randInt(rnd, 1, Len(UsernamePrefixes)) + 1] \o "_"
                    \o randomString(6, rnd, 1)
        ELSE ""

(* ----------------------------- parseFieldPath --------------------------- *)

\* number of bytes of a rune, and of a string, in UTF-8
RuneLen(ch) == IF ch \in MultiByteRunes THEN 3 ELSE 1

RECURSIVE ByteLen(_)
ByteLen(s) == IF s = "" THEN 0 ELSE RuneLen(At(s, 1)) + ByteLen(Sub(s, 2, Len(s)))

\* fieldPathPart
fieldPathPart(name, isArray, index) == [name |-> name, isArray |-> isArray, index |-> index]

\* the body of parseFieldPath's loop for the rune ch at byte offset i.
\* st = [parts, currentPart, inBracket, bracketContent]
parseRune(st, path, i, ch) ==
    LET s1 ==
          IF ch = "."
          THEN IF st.inBracket THEN [st EXCEPT !.bracketContent = @ \o ch]
               ELSE IF st.currentPart # ""
               THEN [st EXCEPT !.parts = Append(@, fieldPathPart(st.currentPart, FALSE, 0)),
                               !.currentPart = ""]
               ELSE st
          ELSE IF ch = "[" THEN [st EXCEPT !.inBracket = TRUE]
          ELSE IF ch = "]"
          THEN IF st.inBracket
               THEN LET index == Atoi(st.bracketContent)
                    IN  IF ~index.err /\ index.v >= 0
                        THEN [st EXCEPT !.inBracket = FALSE,
                                        !.parts = Append(@, fieldPathPart(st.currentPart,
                                                                          TRUE, index.v)),
                                        !.currentPart = "",
                                        !.bracketContent = ""]
                        ELSE [st EXCEPT !.inBracket = FALSE, !.bracketContent = ""]
               ELSE st
          ELSE IF st.inBracket THEN [st EXCEPT !.bracketContent = @ \o ch]
          ELSE [st EXCEPT !.currentPart = @ \o ch]
    IN  IF i = ByteLen(path) - 1 /\ s1.currentPart # ""
        THEN [s1 EXCEPT !.parts = Append(@, fieldPathPart(s1.currentPart, FALSE, 0))]
        ELSE s1

\* for i, ch := range path: k is the position of the rune, i its byte offset
RECURSIVE parseFrom(_, _, _, _)
parseFrom(st, path, k, i) ==
    IF k > Len(path) THEN st.parts
    ELSE parseFrom(parseRune(st, path, i, At(path, k)), path, k + 1,
                   i + RuneLen(At(path, k)))

parseFieldPath(path) ==
    IF path = "" THEN <<>>
    ELSE parseFrom([parts |-> <<>>, currentPart |-> "", inBracket |-> FALSE,
                    bracketContent |-> ""], path, 1, 0)

(* ---------------------------- extractFieldValue ------------------------- *)

\* v[name] of a value: nil unless the value is a map that has the key (any
\* other value fails the conversion to a map, or converts to an empty one)
fieldOf(current, name) ==
    IF IsType(current, "map")
    THEN IF name \in DOMAIN current.v THEN [exists |-> TRUE, value |-> current.v[name]]
         ELSE [exists |-> FALSE, value |-> Nil]
    ELSE [exists |-> FALSE, value |-> Nil]

\* arr[index] of a value: nil unless the value is a slice that long
elementOf(current, index) ==
    IF IsType(current, "slice")
    THEN IF index >= 0 /\ index < Len(current.v)
         THEN [exists |-> TRUE, value |-> current.v[index + 1]]
         ELSE [exists |-> FALSE, value |-> Nil]
    ELSE [exists |-> FALSE, value |-> Nil]

\* one part of the path applied to the current value
extractPart(current, part) ==
    IF part.isArray
    THEN IF part.name # ""
         THEN IF fieldOf(current, part.name).exists
              THEN elementOf(fieldOf(current, part.name).value, part.index)
              ELSE [exists |-> FALSE, value |-> Nil]
         ELSE elementOf(current, part.index)
    ELSE fieldOf(current, part.name)

RECURSIVE extractFrom(_, _, _)
extractFrom(current, parts, k) ==
    IF k > Len(parts) THEN current
    ELSE IF extractPart(current, parts[k]).exists
    THEN extractFrom(extractPart(current, parts[k]).value, parts, k + 1)
    ELSE Nil

extractFieldValue(body, fieldPath) == extractFrom(body, parseFieldPath(fieldPath), 1)

(* --------------------------- fmt.Sprintf("%v") -------------------------- *)

\* the keys of the modelled maps in the order fmt prints them (sorted)
KeyOrder == <<"code", "data", "id", "items", "name", "user">>

SortedKeys(m) ==
    LET RECURSIVE keysFrom(_)
        keysFrom(k) ==
            IF k > Len(KeyOrder) THEN <<>>
            ELSE IF KeyOrder[k] \in DOMAIN m THEN <<KeyOrder[k]>> \o keysFrom(k + 1)
            ELSE keysFrom(k + 1)
    IN  keysFrom(1)

\* fmt.Sprintf("%v", float64) of a float held in tenths
FloatToString(tenths) ==
    IF IsWhole(tenths) THEN IntToString(Truncate(tenths))
    ELSE (IF tenths < 0 THEN "-" ELSE "")
            \o NatToString((IF tenths < 0 THEN 0 - tenths ELSE tenths) \div 10) \o "."
            \o Digits[((IF tenths < 0 THEN 0 - tenths ELSE tenths) % 10) + 1]

\* fmt.Sprintf("%v", value)
RECURSIVE Sprint(_)
Sprint(value) ==
    IF value = Nil THEN "<nil>"
    ELSE IF value.t = "string" THEN value.v
    ELSE IF value.t \in {"int", "int64"} THEN IntToString(value.v)
    ELSE IF value.t = "float64" THEN FloatToString(value.v)
    ELSE IF value.t = "bool" THEN (IF value.v THEN "true" ELSE "false")
    ELSE IF value.t = "map"
    THEN LET keys == SortedKeys(value.v)
             RECURSIVE entries(_)
             entries(k) ==
                 IF k > Len(keys) THEN ""
                 ELSE (IF k > 1 THEN " " ELSE "") \o keys[k] \o ":"
                        \o Sprint(value.v[keys[k]]) \o entries(k + 1)
         IN  "map[" \o entries(1) \o "]"
    ELSE LET RECURSIVE items(_)
             items(k) ==
                 IF k > Len(value.v) THEN ""
                 ELSE (IF k > 1 THEN " " ELSE "") \o Sprint(value.v[k]) \o items(k + 1)
         IN  "[" \o items(1) \o "]"

(* ------------------- varPattern: \{\{([^}]+)\}\} ------------------------ *)

\* first position at or after i that holds "}", Len(s) + 1 when there is none
RECURSIVE closingFrom(_, _)
closingFrom(s, i) ==
    IF i > Len(s) \/ At(s, i) = "}" THEN i ELSE closingFrom(s, i + 1)

\* does varPattern match at position i: "{{", one or more runes other than
\* "}", then "}}"
matchesAt(s, i) ==
    /\ Sub(s, i, i + 1) = "{{"
    /\ closingFrom(s, i + 2) > i + 2
    /\ Sub(s, closingFrom(s, i + 2), closingFrom(s, i + 2) + 1) = "}}"

\* start of the leftmost match at or after position i, 0 when there is none
RECURSIVE findMatch(_, _)
findMatch(s, i) ==
    IF i > Len(s) THEN 0
    ELSE IF matchesAt(s, i) THEN i
    ELSE findMatch(s, i + 1)

\* the match that starts at i: its first and last position, its text
\* (match[0]) and its group (match[1])
matchAt(s, i) ==
    LET j == closingFrom(s, i + 2)
    IN  [first |-> i, last |-> j + 1, text |-> Sub(s, i, j + 1),
         group |-> Sub(s, i + 2, j - 1)]

\* varPattern.FindAllStringSubmatch(s, -1)
RECURSIVE FindAllStringSubmatch(_)
FindAllStringSubmatch(s) ==
    IF findMatch(s, 1) = 0 THEN <<>>
    ELSE LET m == matchAt(s, findMatch(s, 1))
         IN  <<m>> \o FindAllStringSubmatch(Sub(s, m.last + 1, Len(s)))

(* ------------------------- convertToSchemaType -------------------------- *)

\* mutant of convertToSchemaType: a numeric string is left a string
convertToSchemaTypeNoAtoi(value, expectedType) ==
    IF value = Nil THEN value
    ELSE IF expectedType = "int"
    THEN IF value.t = "int" THEN value
         ELSE IF value.t = "int64" THEN IntValue(value.v)
         ELSE IF value.t = "float64" THEN IntValue(Truncate(value.v))
         ELSE value
    ELSE IF expectedType \in {"float", "float64"}
    THEN IF value.t = "float64" THEN value
         ELSE IF value.t \in {"int", "int64"} THEN Float64Value(value.v * 10)
         ELSE IF value.t = "string" /\ ~ParseFloat(value.v).err
         THEN Float64Value(ParseFloat(value.v).v)
         ELSE value
    ELSE IF expectedType = "string" THEN StringValue(Sprint(value))
    ELSE IF expectedType \in {"bool", "boolean"}
    THEN IF value.t = "string" /\ ~ParseBool(value.v).err THEN BoolValue(ParseBool(value.v).v)
         ELSE value
    ELSE value

convertToSchemaType(value, expectedType) ==
    IF value = Nil THEN value
    ELSE IF expectedType = "int"
    THEN IF value.t = "int" THEN value
         ELSE IF value.t = "int64" THEN IntValue(value.v)
         ELSE IF value.t = "float64" THEN IntValue(Truncate(value.v))
         ELSE IF value.t = "string" /\ ~Atoi(value.v).err THEN IntValue(Atoi(value.v).v)
         ELSE value
    ELSE IF expectedType \in {"float", "float64"}
    THEN IF value.t = "float64" THEN value
         ELSE IF value.t \in {"int", "int64"} THEN Float64Value(value.v * 10)
         ELSE IF value.t = "string" /\ ~ParseFloat(value.v).err
         THEN Float64Value(ParseFloat(value.v).v)
         ELSE value
    ELSE IF expectedType = "string" THEN StringValue(Sprint(value))
    ELSE IF expectedType \in {"bool", "boolean"}
    THEN IF value.t = "string" /\ ~ParseBool(value.v).err THEN BoolValue(ParseBool(value.v).v)
         ELSE value
    ELSE value

\* setNestedValue on the map m (a function): the field at parts[k..] is
\* converted when every map on the way to it, and the field itself, exists
RECURSIVE setNestedFrom(_, _, _, _)
setNestedFrom(m, parts, k, expectedType) ==
    IF k = Len(parts)
    THEN IF parts[k] \in DOMAIN m
         THEN [m EXCEPT ![parts[k]] = convertToSchemaType(@, expectedType)]
         ELSE m
    ELSE IF parts[k] \in DOMAIN m /\ IsType(m[parts[k]], "map")
    THEN [m EXCEPT ![parts[k]] = MapValue(setNestedFrom(@.v, parts, k + 1, expectedType))]
    ELSE m

setNestedValue(data, fieldPath, expectedType) ==
    setNestedFrom(data, Split(fieldPath, "."), 1, expectedType)

\* convertBodyToSchemaTypes: every field the schema declares, one after the
\* other (declared paths that are not prefixes of one another commute)
convertBodyToSchemaTypes(body, schema) ==
    LET RECURSIVE convertAll(_, _)
        convertAll(data, fields) ==
            IF fields = {} THEN data
            ELSE LET f == CHOOSE f \in fields : TRUE
                 IN  convertAll(setNestedValue(data, f, schema[f]), fields \ {f})
    IN  IF IsType(body, "map") THEN MapValue(convertAll(body.v, DOMAIN schema)) ELSE body

(* --------------------------- replaceVariables --------------------------- *)

\* extractValue once the placeholder's content is trimmed and split:
\* parts[1] names a stored result, rawPath is what follows the first dot
resolveReference(store, parts, rawPath, fieldPath) ==
    LET depResult == getResult(store, parts[1])
        found(sourceData) ==
            CHOOSE r \in
              { [value |-> value, ok |-> value # Nil] :
                value \in { IF fieldPath = "" THEN sourceData
                            ELSE extractFieldValue(sourceData, fieldPath) } } : TRUE
    IN  IF depResult = Nil THEN [value |-> Nil, ok |-> FALSE]
        ELSE IF HasPrefix(rawPath, "request.") THEN found(depResult.Request.Body)
        ELSE IF depResult.Response = Nil THEN [value |-> Nil, ok |-> FALSE]
        ELSE found(depResult.Response.BodyJSON)

\* extractValue's $random branch: an empty value counts as not generated
resolveRandom(generated) ==
    IF generated # "" THEN [value |-> StringValue(generated), ok |-> TRUE]
    ELSE [value |-> Nil, ok |-> FALSE]

\* the closure extractValue: the value a placeholder's content resolves to.
\* Each intermediate value is bound through a singleton set, so that it is
\* computed once.
extractValue(store, rnd, path) ==
    CHOOSE r \in
      { IF HasPrefix(varPath, "$random")
        THEN CHOOSE g \in { resolveRandom(generated) :
                            generated \in {generateRandomValue(varPath, rnd)} } : TRUE
        ELSE CHOOSE d \in
               { CHOOSE q \in
                   { CHOOSE f \in
                       { resolveReference(store, parts, rawPath, fieldPath) :
                         fieldPath \in { IF HasPrefix(rawPath, "request.")
                                         THEN TrimPrefix(rawPath, "request.")
                                         ELSE TrimPrefix(rawPath, "response.") } } : TRUE :
                     rawPath \in {IF Len(parts) = 2 THEN parts[2] ELSE ""} } : TRUE :
                 parts \in {SplitN2(varPath, ".")} } : TRUE :
        varPath \in {TrimSpace(path)} } : TRUE

\* mutant of replaceMatch: an unresolved placeholder is dropped
replaceMatchDropsUnresolved(m, r) ==
    IF r.ok /\ r.value # Nil THEN Sprint(r.value) ELSE ""

\* the function ReplaceAllStringFunc is given: the string form of the value
\* the match m resolves to (r), or the match itself when it does not resolve
replaceMatch(m, r) ==
    IF r.ok /\ r.value # Nil THEN Sprint(r.value) ELSE m.text

\* the closure replaceInString: every match replaced by the string form of
\* its value, or kept when it does not resolve
RECURSIVE replaceInString(_, _, _)
replaceInString(store, rnd, s) ==
    IF findMatch(s, 1) = 0 THEN s
    ELSE CHOOSE out \in
           { Sub(s, 1, m.first - 1)
               \o (CHOOSE text \in
                     { replaceMatch(m, r) :
                       r \in {extractValue(store, rnd, Trim(m.text, {"{", "}"}))} } : TRUE)
               \o replaceInString(store, rnd, Sub(s, m.last + 1, Len(s))) :
             m \in {matchAt(s, findMatch(s, 1))} } : TRUE

\* replaceInInterface on a string that is one whole placeholder that resolves
\* to r.value: the value keeps its type, a whole float64 becomes an int64
wholeValue(r) ==
    IF r.value # Nil /\ r.value.t = "float64" /\ IsWhole(r.value.v)
    THEN Int64Value(Truncate(r.value.v))
    ELSE r.value

\* replaceInInterface on the string s, whose trimmed form has these matches
replaceInStringValue(store, rnd, s, trimmed, matches) ==
    IF Len(matches) = 1 /\ trimmed = matches[1].text
    THEN CHOOSE out \in
           { IF r.ok THEN wholeValue(r) ELSE StringValue(replaceInString(store, rnd, s)) :
             r \in {extractValue(store, rnd, matches[1].group)} } : TRUE
    ELSE StringValue(replaceInString(store, rnd, s))

\* the closure replaceInInterface
RECURSIVE replaceInInterface(_, _, _)
replaceInInterface(store, rnd, v) ==
    IF v = Nil THEN v
    ELSE IF v.t = "string"
    THEN CHOOSE out \in
           { CHOOSE o \in
               { replaceInStringValue(store, rnd, v.v, trimmed, matches) :
                 matches \in {FindAllStringSubmatch(trimmed)} } : TRUE :
             trimmed \in {TrimSpace(v.v)} } : TRUE
    ELSE IF v.t = "map"
    THEN MapValue([k \in DOMAIN v.v |-> replaceInInterface(store, rnd, v.v[k])])
    ELSE IF v.t = "slice"
    THEN SliceValue([i \in 1..Len(v.v) |-> replaceInInterface(store, rnd, v.v[i])])
    ELSE v

(* ---------------- maps shared with the stored results ------------------- *)

\* A whole placeholder is replaced by the value extractValue returns itself:
\* when that value is a map, the processed body holds the very map of the
\* stored result (extractFieldValue walks map[string]interface{} values
\* without copying them), and setNestedValue writes through it.

NotShared == [shared |-> FALSE]

\* the stored result a placeholder's content names, the side of it and the
\* field path, as extractValue splits them
referenceOf(path) ==
    CHOOSE ref \in
      { CHOOSE r \in
          { [name |-> parts[1],
             side |-> IF HasPrefix(rawPath, "request.") THEN "request" ELSE "response",
             fieldPath |-> IF HasPrefix(rawPath, "request.")
                           THEN TrimPrefix(rawPath, "request.")
                           ELSE TrimPrefix(rawPath, "response.")] :
            rawPath \in {IF Len(parts) = 2 THEN parts[2] ELSE ""} } : TRUE :
        parts \in {SplitN2(TrimSpace(path), ".")} } : TRUE

\* replaceInInterface on the configured value v: is what it returns a map of
\* a stored result, and which one
sharedObject(store, rnd, v) ==
    IF ~IsType(v, "string") THEN NotShared
    ELSE CHOOSE out \in
           { CHOOSE o \in
               { IF /\ Len(matches) = 1
                    /\ trimmed = matches[1].text
                    /\ ~HasPrefix(TrimSpace(matches[1].group), "$random")
                 THEN CHOOSE x \in
                        { IF r.ok /\ IsType(r.value, "map")
                          THEN [shared |-> TRUE, ref |-> referenceOf(matches[1].group),
                                obj |-> r.value]
                          ELSE NotShared :
                          r \in {extractValue(store, rnd, matches[1].group)} } : TRUE
                 ELSE NotShared :
                 matches \in {FindAllStringSubmatch(trimmed)} } : TRUE :
             trimmed \in {TrimSpace(v.v)} } : TRUE

\* the value current with the value at parts[k..] replaced by new
RECURSIVE putField(_, _, _, _)
putField(current, parts, k, new) ==
    IF k > Len(parts) THEN new
    ELSE IF parts[k].isArray
    THEN IF parts[k].name # ""
         THEN MapValue([current.v EXCEPT ![parts[k].name] =
                  SliceValue([@.v EXCEPT ![parts[k].index + 1] =
                                 putField(@, parts, k + 1, new)])])
         ELSE SliceValue([current.v EXCEPT ![parts[k].index + 1] =
                             putField(@, parts, k + 1, new)])
    ELSE MapValue([current.v EXCEPT ![parts[k].name] = putField(@, parts, k + 1, new)])

\* the stored results once the shared map ref points at holds obj
writeThrough(store, ref, obj) ==
    IF ref.side = "request"
    THEN [store EXCEPT ![ref.name].Request.Body =
             putField(@, parseFieldPath(ref.fieldPath), 1, obj)]
    ELSE [store EXCEPT ![ref.name].Response.BodyJSON =
             putField(@, parseFieldPath(ref.fieldPath), 1, obj)]

\* setNestedValue below a shared map sh, reached after k - 1 parts of the
\* path: convertBodyToSchemaTypes copied the top level of the body only, so
\* a field of the body itself (one part, k = 1) is set in the copy
setShared(store, sh, parts, k, expectedType) ==
    IF k = 1 /\ Len(parts) = 1 THEN store
    ELSE writeThrough(store, sh.ref,
                      MapValue(setNestedFrom(sh.obj.v, parts, k, expectedType)))

\* the stored results after setNestedValue on the field at parts: v is the
\* configured value that becomes the value k - 1 parts down the body
RECURSIVE storeAfterSet(_, _, _, _, _, _)
storeAfterSet(store, rnd, v, parts, k, expectedType) ==
    IF k > Len(parts) THEN store
    ELSE CHOOSE out \in
           { IF sh.shared THEN setShared(store, sh, parts, k, expectedType)
             ELSE IF IsType(v, "map") /\ k < Len(parts) /\ parts[k] \in DOMAIN v.v
             THEN storeAfterSet(store, rnd, v.v[parts[k]], parts, k + 1, expectedType)
             ELSE store :
             sh \in {sharedObject(store, rnd, v)} } : TRUE

\* the stored results after convertBodyToSchemaTypes on the processed body
RECURSIVE storeAfterFields(_, _, _, _)
storeAfterFields(store, rnd, request, fields) ==
    IF fields = {} THEN store
    ELSE CHOOSE out \in
           { storeAfterFields(
                 storeAfterSet(store, rnd, request.Body, Split(f, "."), 1,
                               request.BodySchema[f]),
                 rnd, request, fields \ {f}) :
             f \in {CHOOSE f \in fields : TRUE} } : TRUE

\* the stored results after replaceVariables on the request
storeAfterConversion(store, rnd, request) ==
    IF request.Body = Nil \/ DOMAIN request.BodySchema = {} THEN store
    ELSE storeAfterFields(store, rnd, request, DOMAIN request.BodySchema)

\* the report's results hold the same Response and the same body map as the
\* stored results of their names
reportAfterConversion(rep, store) ==
    [rep EXCEPT !.Results =
        [k \in DOMAIN rep.Results |->
            IF rep.Results[k].Name \in DOMAIN store
            THEN [rep.Results[k] EXCEPT
                     !.Request.Body = store[rep.Results[k].Name].Request.Body,
                     !.Response = store[rep.Results[k].Name].Response]
            ELSE rep.Results[k]]]

\* the body replaceVariables leaves in the request: placeholders replaced,
\* then converted to the declared types when there is a body_schema
replaceBody(store, rnd, request) ==
    IF request.Body = Nil THEN Nil
    ELSE CHOOSE out \in
           { IF DOMAIN request.BodySchema # {}
             THEN convertBodyToSchemaTypes(newBody, request.BodySchema)
             ELSE newBody :
             newBody \in {replaceInInterface(store, rnd, request.Body)} } : TRUE

\* replaceVariables: the copy of the test whose request has its placeholders
\* replaced and its body converted to the declared types; the headers are
\* replaced last, from the stored results as the conversion left them
replaceVariables(store, rnd, apiTest) ==
    CHOOSE processedTest \in
      { [apiTest EXCEPT
           !.Request.Path = replaceInString(store, rnd, request.Path),
           !.Request.Query = IF request.Query = Nil THEN Nil
                             ELSE replaceInInterface(store, rnd, MapValue(request.Query)).v,
           !.Request.Body = replaceBody(store, rnd, request),
           !.Request.Headers =
               IF request.Headers = Nil THEN Nil
               ELSE CHOOSE headers \in
                      { [k \in DOMAIN request.Headers |->
                            replaceInString(converted, rnd, request.Headers[k])] :
                        converted \in {storeAfterConversion(store, rnd, request)} } : TRUE] :
        request \in {apiTest.Request} } : TRUE

(* ------------------------- HTTPClient.Do (client) ----------------------- *)

\* getNestedValue: the value at the dotted path, through maps only
RECURSIVE getNestedFrom(_, _, _)
getNestedFrom(current, parts, k) ==
    IF k > Len(parts) THEN [value |-> current, exists |-> TRUE]
    ELSE IF IsType(current, "map") /\ parts[k] \in DOMAIN current.v
    THEN getNestedFrom(current.v[parts[k]], parts, k + 1)
    ELSE [value |-> Nil, exists |-> FALSE]

getNestedValue(data, path) == getNestedFrom(data, Split(path, "."), 1)

\* getValueType: the name of the value's kind
getValueType(value) ==
    IF value = Nil THEN "nil"
    ELSE IF value.t \in {"int", "int64"} THEN "int"
    ELSE value.t

\* mutant of validateFieldType: a float64 is taken for an int whatever it holds
validateFieldTypeAnyFloat(value, expectedType) ==
    LET actualType == getValueType(value)
    IN  IF value = Nil THEN FALSE
        ELSE IF expectedType = "int" THEN actualType \in {"float64", "int"}
        ELSE IF expectedType \in {"float", "float64"} THEN actualType = "float64"
        ELSE IF expectedType = "string" THEN actualType = "string"
        ELSE IF expectedType \in {"bool", "boolean"} THEN actualType = "bool"
        ELSE IF expectedType \in {"array", "slice"} THEN actualType = "slice"
        ELSE IF expectedType \in {"object", "map"} THEN actualType = "map"
        ELSE FALSE

\* validateFieldType: TRUE when it returns nil, FALSE when it returns an error
validateFieldType(value, expectedType) ==
    LET actualType == getValueType(value)
    IN  IF value = Nil THEN FALSE
        ELSE IF expectedType = "int"
        THEN IF actualType = "float64" /\ IsWhole(value.v) THEN TRUE
             ELSE actualType = "int"
        ELSE IF expectedType \in {"float", "float64"} THEN actualType = "float64"
        ELSE IF expectedType = "string" THEN actualType = "string"
        ELSE IF expectedType \in {"bool", "boolean"} THEN actualType = "bool"
        ELSE IF expectedType \in {"array", "slice"} THEN actualType = "slice"
        ELSE IF expectedType \in {"object", "map"} THEN actualType = "map"
        ELSE FALSE

\* validateBodySchema: TRUE when it returns nil.  A body that is not a map does
\* not survive the conversion to one.
validateBodySchema(body, schema) ==
    /\ IsType(body, "map")
    /\ \A field \in DOMAIN schema :
          /\ getNestedValue(body, field).exists
          /\ validateFieldType(getNestedValue(body, field).value, schema[field])

\* the error Do returns before anything is sent
PreflightError == [err |-> TRUE, StatusCode |-> 0, valid |-> FALSE, body |-> 0,
                   sent |-> FALSE]

\* HTTPClient.Do followed by Validate: reply is what the transport and the
\* server do with the request once it is sent
Do(reqConfig, reply) ==
    IF /\ DOMAIN reqConfig.BodySchema # {}
       /\ reqConfig.Body # Nil
       /\ ~validateBodySchema(reqConfig.Body, reqConfig.BodySchema)
    THEN PreflightError
    ELSE reply

(* ------------------------------ the server ------------------------------ *)

\* the path of the endpoint that answers with a JSON body
JSONPath == "/create"

\* the JSON bodies that endpoint answers with: data.id a decimal string, a
\* whole number, a fraction, a word; data an array
ResponseBodies ==
    << MapValue([data |-> MapValue([id |-> StringValue("123")])]),
       MapValue([data |-> MapValue([id |-> Float64Value(1230)])]),
       MapValue([data |-> MapValue([id |-> Float64Value(125)])]),
       MapValue([data |-> MapValue([id |-> StringValue("abc")])]),
       MapValue([data |-> SliceValue(<<MapValue([id |-> Float64Value(70)])>>)]) >>

\* what the transport, the server and Validate can make of a request that is
\* sent: a transport error, a response that fails validation, a response that
\* passes; body is the position of the response body in ResponseBodies, 0 for
\* a response that is not JSON
Replies(bodies) ==
    {[err |-> TRUE, StatusCode |-> 0, valid |-> FALSE, body |-> 0, sent |-> TRUE]}
    \cup { [err |-> FALSE, StatusCode |-> 500, valid |-> FALSE, body |-> b,
            sent |-> TRUE] : b \in bodies }
    \cup { [err |-> FALSE, StatusCode |-> 200, valid |-> TRUE, body |-> b,
            sent |-> TRUE] : b \in bodies }

\* Response.BodyJSON of a reply: a nil map unless the body is JSON
BodyJSON(reply) ==
    IF reply.body = 0 THEN MapValue(EmptyMap) ELSE ResponseBodies[reply.body]

\* the replies of an endpoint that answers without a JSON body
ClientOutcomes == Replies({0})

\* what can come back for a request: the server is the environment, and only
\* the one endpoint answers in JSON
ServerReplies(request) ==
    IF request.Path = JSONPath THEN Replies(1..Len(ResponseBodies)) ELSE ClientOutcomes

\* does the value hold the word in one of its strings
RECURSIVE Mentions(_, _)
Mentions(v, word) ==
    IF v = Nil THEN FALSE
    ELSE IF v.t = "string" THEN IndexFrom(v.v, word, 1) # 0
    ELSE IF v.t = "map" THEN \E k \in DOMAIN v.v : Mentions(v.v[k], word)
    ELSE IF v.t = "slice" THEN \E i \in 1..Len(v.v) : Mentions(v.v[i], word)
    ELSE FALSE

\* does some field of the request that replaceVariables rewrites hold the word
RequestMentions(request, word) ==
    \/ IndexFrom(request.Path, word, 1) # 0
    \/ IF request.Headers = Nil THEN FALSE
       ELSE \E k \in DOMAIN request.Headers : IndexFrom(request.Headers[k], word, 1) # 0
    \/ IF request.Query = Nil THEN FALSE ELSE Mentions(MapValue(request.Query), word)
    \/ Mentions(request.Body, word)

\* length of a random stream
StreamLen == 7

\* every random stream
RandomStreams == [1..StreamLen -> RandomDraws]

\* the random streams a run of replaceVariables is given: the random source is
\* read only for a $random placeholder, and then every read of the run draws
\* the same value
RandomSources(request) ==
    IF RequestMentions(request, "$random")
    THEN {[i \in 1..StreamLen |-> d] : d \in RandomDraws}
    ELSE {[i \in 1..StreamLen |-> 0]}

(* --------------------------- executeAPITest ---------------------------- *)

\* the TestResult literal executeAPITest and Execute start from (zero values)
NewTestResult(name) ==
    [Name |-> name, Passed |-> FALSE, Skipped |-> FALSE, SkipReason |-> <<>>,
     StatusCode |-> 0, Request |-> ZeroRequest, Response |-> Nil, Validation |-> Nil,
     Error |-> Nil, RetryCount |-> 0]

\* the loop bound executeAPITest computes from retry_policy.max_retries
attemptLimit(maxRetries) == IF maxRetries = 0 THEN 1 ELSE maxRetries + 1

\* the attempts for which the environment has to supply an outcome
AttemptDomain(maxRetries) == 1..attemptLimit(maxRetries)

\* mutant of loopBody: a transport error clears what earlier attempts left in
\* the result
loopBodyClearsResponse(st, attempt, outcome) ==
    LET r1 == IF attempt > 0
              THEN [st.result EXCEPT !.RetryCount = @ + 1]
              ELSE st.result
        s1 == [st EXCEPT !.result = r1, !.calls = @ + 1]
    IN  IF outcome.err
        THEN [s1 EXCEPT !.lastErr = [attempt |-> attempt + 1],
                        !.result.Response = Nil,
                        !.result.StatusCode = 0,
                        !.result.Validation = Nil]
        ELSE LET r2 == [r1 EXCEPT
                          !.Response = [attempt |-> attempt + 1,
                                        StatusCode |-> outcome.StatusCode,
                                        BodyJSON |-> BodyJSON(outcome)],
                          !.StatusCode = outcome.StatusCode,
                          !.Validation = [attempt |-> attempt + 1,
                                          Passed |-> outcome.valid]]
                 s2 == [s1 EXCEPT !.result = r2, !.validations = @ + 1]
             IN  IF outcome.valid
                 THEN [s2 EXCEPT !.result.Passed = TRUE, !.returned = TRUE]
                 ELSE s2

\* mutant of loopBody: lastErr keeps the first transport error
loopBodyKeepsFirstErr(st, attempt, outcome) ==
    LET r1 == IF attempt > 0
              THEN [st.result EXCEPT !.RetryCount = @ + 1]
              ELSE st.result
        s1 == [st EXCEPT !.result = r1, !.calls = @ + 1]
    IN  IF outcome.err
        THEN IF st.lastErr = Nil THEN [s1 EXCEPT !.lastErr = [attempt |-> attempt + 1]]
             ELSE s1
        ELSE LET r2 == [r1 EXCEPT
                          !.Response = [attempt |-> attempt + 1,
                                        StatusCode |-> outcome.StatusCode,
                                        BodyJSON |-> BodyJSON(outcome)],
                          !.StatusCode = outcome.StatusCode,
                          !.Validation = [attempt |-> attempt + 1,
                                          Passed |-> outcome.valid]]
                 s2 == [s1 EXCEPT !.result = r2, !.validations = @ + 1]
             IN  IF outcome.valid
                 THEN [s2 EXCEPT !.result.Passed = TRUE, !.returned = TRUE]
                 ELSE s2

\* mutant of loopBody: the first attempt is counted as a retry too
loopBodyCountsFirst(st, attempt, outcome) ==
    LET r1 == [st.result EXCEPT !.RetryCount = @ + 1]
        s1 == [st EXCEPT !.result = r1, !.calls = @ + 1]
    IN  IF outcome.err
        THEN [s1 EXCEPT !.lastErr = [attempt |-> attempt + 1]]
        ELSE LET r2 == [r1 EXCEPT
                          !.Response = [attempt |-> attempt + 1,
                                        StatusCode |-> outcome.StatusCode,
                                        BodyJSON |-> BodyJSON(outcome)],
                          !.StatusCode = outcome.StatusCode,
                          !.Validation = [attempt |-> attempt + 1,
                                          Passed |-> outcome.valid]]
                 s2 == [s1 EXCEPT !.result = r2, !.validations = @ + 1]
             IN  IF outcome.valid
                 THEN [s2 EXCEPT !.result.Passed = TRUE, !.returned = TRUE]
                 ELSE s2

\* one iteration of the for loop, attempt counted from 0; outcome is what
\* client.Do and Validate yield in this iteration.
\* st = [result, lastErr, calls, validations, returned]
loopBody(st, attempt, outcome) ==
    LET r1 == IF attempt > 0
              THEN [st.result EXCEPT !.RetryCount = @ + 1]
              ELSE st.result
        s1 == [st EXCEPT !.result = r1, !.calls = @ + 1]
    IN  IF outcome.err
        THEN [s1 EXCEPT !.lastErr = [attempt |-> attempt + 1]]
        ELSE LET r2 == [r1 EXCEPT
                          !.Response = [attempt |-> attempt + 1,
                                        StatusCode |-> outcome.StatusCode,
                                        BodyJSON |-> BodyJSON(outcome)],
                          !.StatusCode = outcome.StatusCode,
                          !.Validation = [attempt |-> attempt + 1,
                                          Passed |-> outcome.valid]]
                 s2 == [s1 EXCEPT !.result = r2, !.validations = @ + 1]
             IN  IF outcome.valid
                 THEN [s2 EXCEPT !.result.Passed = TRUE, !.returned = TRUE]
                 ELSE s2

\* the for loop: each iteration passes the same request to client.Do
RECURSIVE retryLoop(_, _, _, _, _)
retryLoop(st, attempt, limit, request, outs) ==
    IF st.returned \/ ~(attempt < limit) THEN st
    ELSE retryLoop(loopBody(st, attempt, Do(request, outs[attempt + 1])),
                   attempt + 1, limit, request, outs)

\* executeAPITest: outs[k] is the reply to the k-th call of client.Do, should
\* the call send its request.  Yields the TestResult and the number of client
\* and validator calls made.
executeAPITest(apiTest, outs) ==
    LET st0 == [result |-> [NewTestResult(apiTest.Name) EXCEPT
                               !.Request = apiTest.Request],
                lastErr |-> Nil, calls |-> 0, validations |-> 0, returned |-> FALSE]
        st == retryLoop(st0, 0, attemptLimit(apiTest.RetryPolicy.MaxRetries),
                        apiTest.Request, outs)
    IN  IF st.returned THEN st
        ELSE [st EXCEPT !.result.Error = IF st.lastErr # Nil THEN st.lastErr ELSE @,
                        !.result.Passed = FALSE]

(* ---------------------------- findRootCause ---------------------------- *)

\* findDependsOn: depends_on of the first configured test of that name
findDependsOn(cfg, testName) ==
    IF \E i \in Indices(cfg) : cfg[i].Name = testName
    THEN LET i == CHOOSE i \in Indices(cfg) :
                    /\ cfg[i].Name = testName
                    /\ \A j \in Indices(cfg) : cfg[j].Name = testName => i <= j
         IN  cfg[i].DependsOn
    ELSE ""

\* mutant of rootCauseWalk: a skipped test is reported as the cause itself
rootCauseWalkNoFollow(cfg, store, current, visited) ==
    current

RECURSIVE rootCauseWalk(_, _, _, _)
rootCauseWalk(cfg, store, current, visited) ==
    IF current \in visited THEN current
    ELSE LET result == getResult(store, current)
         IN  IF result = Nil THEN current
             ELSE IF ~result.Passed /\ ~result.Skipped THEN current
             ELSE IF result.Skipped
                  THEN LET dependsOn == findDependsOn(cfg, current)
                       IN  IF dependsOn = "" THEN current
                           ELSE rootCauseWalk(cfg, store, dependsOn,
                                              visited \cup {current})
                  ELSE current

findRootCause(cfg, store, testName) == rootCauseWalk(cfg, store, testName, {})

getDependencyFailureReason(result) == IF result.Skipped THEN "skipped" ELSE "failed"

(* ------------------------------ reports -------------------------------- *)

\* the TestReport literal Execute and ExecuteConcurrent start from
NewReport ==
    [TotalTests |-> 0, PassedTests |-> 0, FailedTests |-> 0, SkippedTests |-> 0,
     Results |-> <<>>, EndTime |-> Nil]

\* the skipped TestResult Execute builds, appended to the report and counted
skippedResult(apiTest, skipReason) ==
    [NewTestResult(apiTest.Name) EXCEPT !.Request = apiTest.Request,
                                        !.Skipped = TRUE, !.SkipReason = skipReason]

\* mutant of reportSkipped: the skipped test is not counted in TotalTests
reportSkippedUncounted(rep, result) ==
    [rep EXCEPT !.Results = Append(@, result),
                !.SkippedTests = @ + 1]

reportSkipped(rep, result) ==
    [rep EXCEPT !.Results = Append(@, result),
                !.SkippedTests = @ + 1,
                !.TotalTests = @ + 1]

\* append an executed result and count it as passed or failed
reportExecuted(rep, result) ==
    [rep EXCEPT !.Results = Append(@, result),
                !.PassedTests = IF result.Passed THEN @ + 1 ELSE @,
                !.FailedTests = IF result.Passed THEN @ ELSE @ + 1,
                !.TotalTests = @ + 1]

\* the reason Execute gives for a failed or skipped dependency
skipReasonFor(cfg, store, apiTest, depResult) ==
    LET rootCause == findRootCause(cfg, store, apiTest.DependsOn)
    IN  IF rootCause # "" /\ rootCause # apiTest.DependsOn
        THEN <<apiTest.DependsOn, getDependencyFailureReason(depResult), rootCause>>
        ELSE <<apiTest.DependsOn, getDependencyFailureReason(depResult)>>

(* --------------------------- configurations ---------------------------- *)

\* what depends_on can hold: nothing, a configured name, an unconfigured name
DependsOnValues == {""} \cup ConfiguredNames \cup {MissingName}

\* every configuration of NumTests uniquely named tests, retry policy default
Configs ==
    { [i \in 1..NumTests |-> APITest(TestNames[i], w[i], d[i], 0)] :
        w \in [1..NumTests -> 0..MaxWeight], d \in [1..NumTests -> DependsOnValues] }

\* the configurations ExecuteConcurrent is run on: it reads neither Weight nor
\* DependsOn, so either no test has a dependency or each has one on its predecessor
ConcurrentConfigs ==
    { [i \in 1..NumTests |->
          APITest(TestNames[i], 0,
                  IF chained THEN (IF i = 1 THEN MissingName ELSE TestNames[i - 1]) ELSE "",
                  0)] : chained \in BOOLEAN }

NoUnits == [i \in 1..NumTests |-> "none"]
NoUnitResults == [i \in 1..NumTests |-> Nil]
NoCalls == [n \in ConfiguredNames |-> 0]

\* the Executor right after NewExecutor(cfg); main then calls `method`
Constructed(cfg, method) ==
    /\ apis = cfg
    /\ call = method
    /\ pc = "ready"
    /\ executionOrder = <<>>
    /\ idx = 0
    /\ results = EmptyMap
    /\ report = Nil
    /\ httpCalls = NoCalls
    /\ valCalls = NoCalls
    /\ semaphore = 0
    /\ wg = 0
    /\ upc = NoUnits
    /\ uresult = NoUnitResults
    /\ rt = Nil

(* ------------------------------ Execute -------------------------------- *)

concVars == <<maxConcurrency, semaphore, wg, upc, uresult>>

\* Execute up to the loop: new report, weight sort, dependency resolution
ExecuteBegin ==
    /\ call = "Execute" /\ pc = "ready"
    /\ report' = NewReport
    /\ \E sortedAPIs \in {sortAPIsByWeight(apis)} :
          executionOrder' = resolveExecutionOrder(sortedAPIs)
    /\ idx' = 1
    /\ pc' = "loop"
    /\ UNCHANGED <<apis, call, results, httpCalls, valCalls, rt>>
    /\ UNCHANGED concVars

\* a loop iteration whose test has a dependency with no stored result
ExecuteSkipNotFound ==
    /\ call = "Execute" /\ pc = "loop" /\ idx <= Len(executionOrder)
    /\ LET apiTest == executionOrder[idx]
       IN  /\ apiTest.DependsOn # ""
           /\ getResult(results, apiTest.DependsOn) = Nil
           /\ LET result == skippedResult(apiTest, <<apiTest.DependsOn, "notfound">>)
              IN  /\ report' = reportSkipped(report, result)
                  /\ results' = storeResult(results, result)
    /\ idx' = idx + 1
    /\ UNCHANGED <<apis, call, pc, executionOrder, httpCalls, valCalls, rt>>
    /\ UNCHANGED concVars

\* a loop iteration whose test has a dependency that failed or was skipped
ExecuteSkipFailed ==
    /\ call = "Execute" /\ pc = "loop" /\ idx <= Len(executionOrder)
    /\ LET apiTest == executionOrder[idx]
           depResult == getResult(results, apiTest.DependsOn)
       IN  /\ apiTest.DependsOn # ""
           /\ depResult # Nil
           /\ ~depResult.Passed \/ depResult.Skipped
           /\ LET result == skippedResult(apiTest,
                                skipReasonFor(apis, results, apiTest, depResult))
              IN  /\ report' = reportSkipped(report, result)
                  /\ results' = storeResult(results, result)
    /\ idx' = idx + 1
    /\ UNCHANGED <<apis, call, pc, executionOrder, httpCalls, valCalls, rt>>
    /\ UNCHANGED concVars

\* mutant of gateOpen: any stored result of the dependency opens the gate
gateOpenAnyResult(store, apiTest) ==
    \/ apiTest.DependsOn = ""
    \/ getResult(store, apiTest.DependsOn) # Nil

\* mutant of gateOpen: a dependency without a stored result opens the gate
gateOpenNotFound(store, apiTest) ==
    \/ apiTest.DependsOn = ""
    \/ IF getResult(store, apiTest.DependsOn) = Nil THEN TRUE
       ELSE getResult(store, apiTest.DependsOn).Passed

\* does Execute's dependency check let the test through
gateOpen(store, apiTest) ==
    \/ apiTest.DependsOn = ""
    \/ LET depResult == getResult(store, apiTest.DependsOn)
       IN  /\ depResult # Nil
           /\ ~(~depResult.Passed \/ depResult.Skipped)

\* a loop iteration that executes its test: replaceVariables, executeAPITest,
\* storeResult, and the report
ExecuteRun ==
    /\ call = "Execute" /\ pc = "loop" /\ idx <= Len(executionOrder)
    /\ LET apiTest == executionOrder[idx]
       IN  /\ gateOpen(results, apiTest)
           /\ \E rnd \in RandomSources(apiTest.Request) :
              \E processedTest \in {replaceVariables(results, rnd, apiTest)} :
              \E outs \in [AttemptDomain(apiTest.RetryPolicy.MaxRetries) ->
                              ServerReplies(processedTest.Request)] :
              \E run \in {executeAPITest(processedTest, outs)} :
              \E converted \in {storeAfterConversion(results, rnd, apiTest.Request)} :
                    /\ results' = storeResult(converted, run.result)
                    /\ report' = reportExecuted(reportAfterConversion(report, converted),
                                                run.result)
                    /\ httpCalls' = [httpCalls EXCEPT ![apiTest.Name] = @ + run.calls]
                    /\ valCalls' = [valCalls EXCEPT ![apiTest.Name] = @ + run.validations]
    /\ idx' = idx + 1
    /\ UNCHANGED <<apis, call, pc, executionOrder, rt>>
    /\ UNCHANGED concVars

\* the loop is over: set EndTime and return the report
ExecuteReturn ==
    /\ call = "Execute" /\ pc = "loop" /\ idx > Len(executionOrder)
    /\ report' = [report EXCEPT !.EndTime = "set"]
    /\ pc' = "done"
    /\ UNCHANGED <<apis, call, executionOrder, idx, results, httpCalls, valCalls, rt>>
    /\ UNCHANGED concVars

NextExecute ==
    \/ ExecuteBegin
    \/ ExecuteSkipNotFound
    \/ ExecuteSkipFailed
    \/ ExecuteRun
    \/ ExecuteReturn

InitExecute == \E cfg \in Configs : Constructed(cfg, "Execute") /\ maxConcurrency = 0

(* ------------------- Execute on templated requests --------------------- *)

\* placeholders: the response of the first test, of a name that is not
\* configured, of the last test (which has no result yet when the second
\* test runs), and a random number
RefID == "{{" \o TestNames[1] \o ".response.data.id}}"
RefMissing == "{{" \o MissingName \o ".response.x}}"
RefLater == "{{" \o TestNames[NumTests] \o ".response.data.id}}"
RefRandom == "{{$random.number.4}}"

\* request bodies with one field id
BodyID(text) == MapValue([id |-> StringValue(text)])

\* the request templates of the test that refers to other tests
TemplateRequests ==
    { RequestConfig("POST", "/items", Nil, Nil, BodyID(RefID), schema) :
        schema \in {NoSchema, [id |-> "int"], [id |-> "string"]} }
    \cup
    { RequestConfig("POST", "/items", Nil, Nil, BodyID(text), schema) :
        text \in {RefMissing, "n-" \o RefMissing, RefLater},
        schema \in {NoSchema, [id |-> "string"], [id |-> "int"]} }
    \cup
    { RequestConfig("GET", path, Nil, Nil, Nil, NoSchema) :
        path \in {"/items/" \o RefMissing, "/items/" \o RefID \o "/" \o RefMissing,
                  "/items/" \o RefLater, "/items/" \o RefRandom \o "/" \o RefMissing} }
    \cup
    { RequestConfig("GET", "/items", [Ref |-> text], Nil, Nil, NoSchema) :
        text \in {RefMissing, RefID \o ":" \o RefMissing} }
    \cup
    { RequestConfig("GET", "/items", Nil, [id |-> StringValue(text)], Nil, NoSchema) :
        text \in {RefMissing, RefID, "n-" \o RefMissing, RefRandom} }

\* configurations of tests of equal weight: the first calls the JSON endpoint,
\* the second has a templated request and may depend on the first or on an
\* unconfigured name, the others are plain
TemplateConfigs ==
    { [i \in 1..NumTests |->
          IF i = 1 THEN [APITest(TestNames[1], 0, "", 0) EXCEPT !.Request.Path = JSONPath]
          ELSE IF i = 2 THEN [APITest(TestNames[2], 0, dep, 0) EXCEPT !.Request = request]
          ELSE APITest(TestNames[i], 0, "", 0)] :
        dep \in {"", TestNames[1], MissingName}, request \in TemplateRequests }

InitTemplate ==
    \E cfg \in TemplateConfigs : Constructed(cfg, "Execute") /\ maxConcurrency = 0

(* ------------- Execute on requests that embed a stored map -------------- *)

\* placeholders for a map of the first test's response: data, and the whole
\* body
RefData == "{{" \o TestNames[1] \o ".response.data}}"
RefBody == "{{" \o TestNames[1] \o "}}"

\* the bodies that embed the map: as the field data, or as the whole body
SharedBodies == <<MapValue([data |-> StringValue(RefData)]), StringValue(RefBody)>>

\* the requests of the test that embeds the map, with schemas that declare
\* the embedded field id, the field data itself, or nothing
SharedRequests(body) ==
    { RequestConfig("POST", "/items", [Ref |-> RefID], Nil, body, schema) :
        schema \in {NoSchema, [f \in {"data.id"} |-> "int"],
                    [f \in {"data.id"} |-> "string"], [data |-> "string"]} }

\* the first test calls the JSON endpoint, the second embeds its response
SharedConfigs(body) ==
    { [i \in 1..NumTests |->
          IF i = 1 THEN [APITest(TestNames[1], 0, "", 0) EXCEPT !.Request.Path = JSONPath]
          ELSE IF i = 2 THEN [APITest(TestNames[2], 0, dep, 0) EXCEPT !.Request = request]
          ELSE APITest(TestNames[i], 0, "", 0)] :
        dep \in {"", TestNames[1], MissingName}, request \in SharedRequests(body) }

InitShared ==
    \E b \in DOMAIN SharedBodies : \E cfg \in SharedConfigs(SharedBodies[b]) :
        Constructed(cfg, "Execute") /\ maxConcurrency = 0

(* ------------------- Execute under retry policies ---------------------- *)

\* the first test has any retry policy; the second has no dependency, depends
\* on the first, or on a name that is not configured
RetryChainConfigs ==
    { [i \in 1..NumTests |->
          IF i = 1 THEN APITest(TestNames[1], 0, "", m)
          ELSE IF i = 2 THEN APITest(TestNames[2], 0, dep, 0)
          ELSE APITest(TestNames[i], 0, "", 0)] :
        m \in (0 - MaxRetries)..MaxRetries, dep \in {"", TestNames[1], MissingName} }

InitExecuteRetry ==
    \E cfg \in RetryChainConfigs : Constructed(cfg, "Execute") /\ maxConcurrency = 0

(* -------------------------- ExecuteConcurrent -------------------------- *)

seqVars == <<executionOrder, results>>

\* ExecuteConcurrent up to the loop: new report, WaitGroup, mutex, semaphore
ConcurrentBegin ==
    /\ call = "ExecuteConcurrent" /\ pc = "ready"
    /\ report' = NewReport
    /\ semaphore' = 0
    /\ wg' = 0
    /\ idx' = 1
    /\ pc' = "spawn"
    /\ UNCHANGED <<apis, call, httpCalls, valCalls, maxConcurrency, upc, uresult, rt>>
    /\ UNCHANGED seqVars

\* a loop iteration: wg.Add(1) and go func(test)
ConcurrentSpawn ==
    /\ call = "ExecuteConcurrent" /\ pc = "spawn" /\ idx <= Len(apis)
    /\ wg' = wg + 1
    /\ upc' = [upc EXCEPT ![idx] = "acquire"]
    /\ idx' = idx + 1
    /\ UNCHANGED <<apis, call, pc, report, httpCalls, valCalls, maxConcurrency,
                   semaphore, uresult, rt>>
    /\ UNCHANGED seqVars

\* mutant of UnitAcquire: the send does not block on a full channel
UnitAcquireUngated(i) ==
    /\ upc[i] = "acquire"
    /\ semaphore' = semaphore + 1
    /\ upc' = [upc EXCEPT ![i] = "execute"]
    /\ UNCHANGED <<apis, call, pc, idx, report, httpCalls, valCalls, maxConcurrency,
                   wg, uresult, rt>>
    /\ UNCHANGED seqVars

\* goroutine i: semaphore <- struct{}{}, which blocks while the channel is full
UnitAcquire(i) ==
    /\ upc[i] = "acquire"
    /\ semaphore < maxConcurrency
    /\ semaphore' = semaphore + 1
    /\ upc' = [upc EXCEPT ![i] = "execute"]
    /\ UNCHANGED <<apis, call, pc, idx, report, httpCalls, valCalls, maxConcurrency,
                   wg, uresult, rt>>
    /\ UNCHANGED seqVars

\* goroutine i: result := e.executeAPITest(test), the step taken at its return
UnitExecute(i) ==
    /\ upc[i] = "execute"
    /\ \E outs \in [AttemptDomain(apis[i].RetryPolicy.MaxRetries) -> ClientOutcomes] :
         LET run == executeAPITest(apis[i], outs)
         IN  /\ uresult' = [uresult EXCEPT ![i] = run.result]
             /\ httpCalls' = [httpCalls EXCEPT ![apis[i].Name] = @ + run.calls]
             /\ valCalls' = [valCalls EXCEPT ![apis[i].Name] = @ + run.validations]
    /\ upc' = [upc EXCEPT ![i] = "record"]
    /\ UNCHANGED <<apis, call, pc, idx, report, maxConcurrency, semaphore, wg, rt>>
    /\ UNCHANGED seqVars

\* goroutine i: the critical section between mu.Lock() and mu.Unlock()
UnitRecord(i) ==
    /\ upc[i] = "record"
    /\ report' = reportExecuted(report, uresult[i])
    /\ uresult' = [uresult EXCEPT ![i] = Nil]
    /\ upc' = [upc EXCEPT ![i] = "release"]
    /\ UNCHANGED <<apis, call, pc, idx, httpCalls, valCalls, maxConcurrency,
                   semaphore, wg, rt>>
    /\ UNCHANGED seqVars

\* goroutine i: the deferred <-semaphore
UnitRelease(i) ==
    /\ upc[i] = "release"
    /\ semaphore > 0
    /\ semaphore' = semaphore - 1
    /\ upc' = [upc EXCEPT ![i] = "wgdone"]
    /\ UNCHANGED <<apis, call, pc, idx, report, httpCalls, valCalls, maxConcurrency,
                   wg, uresult, rt>>
    /\ UNCHANGED seqVars

\* goroutine i: the deferred wg.Done(), which runs last
UnitDone(i) ==
    /\ upc[i] = "wgdone"
    /\ wg' = wg - 1
    /\ upc' = [upc EXCEPT ![i] = "exited"]
    /\ UNCHANGED <<apis, call, pc, idx, report, httpCalls, valCalls, maxConcurrency,
                   semaphore, uresult, rt>>
    /\ UNCHANGED seqVars

\* mutant of ConcurrentReturn: the report is finalized without wg.Wait()
ConcurrentReturnNoWait ==
    /\ call = "ExecuteConcurrent" /\ pc = "spawn" /\ idx > Len(apis)
    /\ report' = [report EXCEPT !.EndTime = "set"]
    /\ pc' = "done"
    /\ UNCHANGED <<apis, call, idx, httpCalls, valCalls, maxConcurrency, semaphore,
                   wg, upc, uresult, rt>>
    /\ UNCHANGED seqVars

\* wg.Wait() returns once the counter is zero; set EndTime and return the report
ConcurrentReturn ==
    /\ call = "ExecuteConcurrent" /\ pc = "spawn" /\ idx > Len(apis)
    /\ wg = 0
    /\ report' = [report EXCEPT !.EndTime = "set"]
    /\ pc' = "done"
    /\ UNCHANGED <<apis, call, idx, httpCalls, valCalls, maxConcurrency, semaphore,
                   wg, upc, uresult, rt>>
    /\ UNCHANGED seqVars

Unit(i) ==
    \/ UnitAcquire(i)
    \/ UnitExecute(i)
    \/ UnitRecord(i)
    \/ UnitRelease(i)
    \/ UnitDone(i)

NextConcurrent ==
    \/ ConcurrentBegin
    \/ ConcurrentSpawn
    \/ \E i \in 1..NumTests : Unit(i)
    \/ ConcurrentReturn

InitConcurrent ==
    \E cfg \in ConcurrentConfigs :
        /\ Constructed(cfg, "ExecuteConcurrent")
        /\ maxConcurrency \in 0..MaxWorkers

(* ---------------- ExecuteConcurrent under retry policies ---------------- *)

\* the configurations of ConcurrentConfigs with every retry policy for the
\* second test
ConcurrentRetryConfigs ==
    { [i \in 1..NumTests |->
          APITest(TestNames[i], 0,
                  IF chained THEN (IF i = 1 THEN MissingName ELSE TestNames[i - 1]) ELSE "",
                  IF i = 2 THEN m ELSE 0)] :
        chained \in BOOLEAN, m \in (0 - MaxRetries)..MaxRetries }

InitConcurrentRetry ==
    \E cfg \in ConcurrentRetryConfigs :
        /\ Constructed(cfg, "ExecuteConcurrent")
        /\ maxConcurrency \in 0..MaxWorkers

(* --------------- ExecuteConcurrent on templated requests ---------------- *)

\* request templates with a random-number placeholder in the path, the query,
\* a header, and the body (without and with a schema for the field)
RandomRequests ==
    { RequestConfig("GET", "/items/" \o RefRandom, Nil, Nil, Nil, NoSchema),
      RequestConfig("GET", "/items", [Ref |-> RefRandom], Nil, Nil, NoSchema),
      RequestConfig("GET", "/items", Nil, [id |-> StringValue(RefRandom)], Nil, NoSchema) }
    \cup
    { RequestConfig("POST", "/items", Nil, Nil, BodyID(RefRandom), schema) :
        schema \in {NoSchema, [id |-> "int"]} }

\* configurations whose second test has one of these requests
ConcurrentTemplateConfigs ==
    { [i \in 1..NumTests |->
          IF i = 2 THEN [APITest(TestNames[2], 0, "", 0) EXCEPT !.Request = request]
          ELSE APITest(TestNames[i], 0, "", 0)] :
        request \in RandomRequests }

InitConcurrentTemplate ==
    \E cfg \in ConcurrentTemplateConfigs :
        /\ Constructed(cfg, "ExecuteConcurrent")
        /\ maxConcurrency \in 0..MaxWorkers

(* ------------------ executeAPITest called on its own ------------------- *)

\* a single test with any retry policy; rt.outs[k] is what the k-th call of
\* client.Do will yield
InitRetry ==
    \E m \in (0 - MaxRetries)..MaxRetries :
        /\ Constructed(<<APITest(TestNames[1], 0, "", m)>>, "executeAPITest")
        /\ maxConcurrency = 0

\* e.executeAPITest(apiTest) from call to return
RunExecuteAPITest ==
    /\ call = "executeAPITest" /\ pc = "ready"
    /\ \E outs \in [1..(MaxRetries + 1) -> ClientOutcomes] :
         LET run == executeAPITest(apis[1], outs)
         IN  /\ rt' = [outs |-> outs, result |-> run.result]
             /\ httpCalls' = [httpCalls EXCEPT ![apis[1].Name] = @ + run.calls]
             /\ valCalls' = [valCalls EXCEPT ![apis[1].Name] = @ + run.validations]
    /\ pc' = "done"
    /\ UNCHANGED <<apis, call, idx, report>>
    /\ UNCHANGED seqVars
    /\ UNCHANGED concVars

(* ------------------- findRootCause called on its own ------------------- *)

\* a stored result that passed, failed or was skipped
storedResult(name, status) ==
    [NewTestResult(name) EXCEPT !.Passed = (status = "passed"),
                                !.Skipped = (status = "skipped")]

\* any Result Store over the configured names (storeResult is exported to the
\* package's tests, which fill the store directly) and any depends_on
InitRootCause ==
    \E d \in [1..NumTests -> DependsOnValues],
       status \in [ConfiguredNames -> {"absent", "passed", "failed", "skipped"}] :
        /\ apis = [i \in 1..NumTests |-> APITest(TestNames[i], 0, d[i], 0)]
        /\ call = "findRootCause"
        /\ pc = "ready"
        /\ executionOrder = <<>>
        /\ idx = 0
        /\ results = [n \in {x \in ConfiguredNames : status[x] # "absent"} |->
                         storedResult(n, status[n])]
        /\ report = Nil
        /\ httpCalls = NoCalls
        /\ valCalls = NoCalls
        /\ maxConcurrency = 0
        /\ semaphore = 0
        /\ wg = 0
        /\ upc = NoUnits
        /\ uresult = NoUnitResults
        /\ rt = Nil

\* e.findRootCause(testName) for every name a caller can pass
RunFindRootCause ==
    /\ call = "findRootCause" /\ pc = "ready"
    /\ rt' = [n \in ConfiguredNames \cup {MissingName} |-> findRootCause(apis, results, n)]
    /\ pc' = "done"
    /\ UNCHANGED <<apis, call, idx, report, httpCalls, valCalls>>
    /\ UNCHANGED seqVars
    /\ UNCHANGED concVars

(* ---------------- findRootCause's loop, one iteration a step ------------ *)

\* the locals of findRootCause at its entry; ret is the value returned (Nil
\* while the loop runs) and stop names the return statement taken
rootCauseEntry(testName) ==
    [testName |-> testName, current |-> testName, visited |-> {}, ret |-> Nil,
     stop |-> "running"]

\* mutant of rootCauseStep: the visited map is filled but never consulted
rootCauseStepNoVisitedCheck(cfg, store, w) ==
    LET current == w.current
        seen == [w EXCEPT !.visited = @ \cup {current}]
        result == getResult(store, current)
    IN  IF result = Nil
        THEN [seen EXCEPT !.ret = current, !.stop = "noResult"]
        ELSE IF ~result.Passed /\ ~result.Skipped
        THEN [seen EXCEPT !.ret = current, !.stop = "failed"]
        ELSE IF result.Skipped
        THEN IF findDependsOn(cfg, current) = ""
             THEN [seen EXCEPT !.ret = current, !.stop = "noDependency"]
             ELSE [seen EXCEPT !.current = findDependsOn(cfg, current)]
        ELSE [seen EXCEPT !.ret = current, !.stop = "passed"]

\* one iteration of findRootCause's for loop on the locals w
rootCauseStep(cfg, store, w) ==
    LET current == w.current
        seen == [w EXCEPT !.visited = @ \cup {current}]
        result == getResult(store, current)
    IN  IF current \in w.visited
        THEN [w EXCEPT !.ret = current, !.stop = "revisited"]
        ELSE IF result = Nil
        THEN [seen EXCEPT !.ret = current, !.stop = "noResult"]
        ELSE IF ~result.Passed /\ ~result.Skipped
        THEN [seen EXCEPT !.ret = current, !.stop = "failed"]
        ELSE IF result.Skipped
        THEN IF findDependsOn(cfg, current) = ""
             THEN [seen EXCEPT !.ret = current, !.stop = "noDependency"]
             ELSE [seen EXCEPT !.current = findDependsOn(cfg, current)]
        ELSE [seen EXCEPT !.ret = current, !.stop = "passed"]

\* any store and any depends_on as in InitRootCause, and any name to start from
InitRootCauseLoop ==
    \E d \in [1..NumTests -> DependsOnValues],
       status \in [ConfiguredNames -> {"absent", "passed", "failed", "skipped"}],
       testName \in ConfiguredNames \cup {MissingName} :
        /\ apis = [i \in 1..NumTests |-> APITest(TestNames[i], 0, d[i], 0)]
        /\ call = "findRootCause.loop"
        /\ pc = "loop"
        /\ executionOrder = <<>>
        /\ idx = 0
        /\ results = [n \in {x \in ConfiguredNames : status[x] # "absent"} |->
                         storedResult(n, status[n])]
        /\ report = Nil
        /\ httpCalls = NoCalls
        /\ valCalls = NoCalls
        /\ maxConcurrency = 0
        /\ semaphore = 0
        /\ wg = 0
        /\ upc = NoUnits
        /\ uresult = NoUnitResults
        /\ rt = rootCauseEntry(testName)

\* the next iteration of the loop; the one that returns ends the call
RootCauseLoopStep ==
    /\ call = "findRootCause.loop" /\ pc = "loop"
    /\ rt' = rootCauseStep(apis, results, rt)
    /\ pc' = IF rt'.stop # "running" THEN "done" ELSE "loop"
    /\ UNCHANGED <<apis, call, idx, report, httpCalls, valCalls>>
    /\ UNCHANGED seqVars
    /\ UNCHANGED concVars

(* --------------- generateRandomValue called on its own ------------------ *)

\* largest digit count asked for in a $random.number placeholder
MaxDigits == 4

\* what can follow "$random.number" in a placeholder: nothing, a count (signed,
\* zero, padded), or text that is not a number
NumberParams ==
    {"", ".", ".0", ".-1", ".+2", ".03", ".abc", ". 4", ".4x", ".4.2"}
    \cup {"." \o IntToString(n) : n \in 1..MaxDigits}

InitRandom ==
    \E param \in NumberParams, rnd \in RandomStreams :
        /\ apis = <<APITest(TestNames[1], 0, "", 0)>>
        /\ call = "generateRandomValue"
        /\ pc = "ready"
        /\ executionOrder = <<>>
        /\ idx = 0
        /\ results = EmptyMap
        /\ report = Nil
        /\ httpCalls = NoCalls
        /\ valCalls = NoCalls
        /\ maxConcurrency = 0
        /\ semaphore = 0
        /\ wg = 0
        /\ upc = NoUnits
        /\ uresult = NoUnitResults
        /\ rt = [randomType |-> "$random.number" \o param, rnd |-> rnd, value |-> Nil]

\* e.generateRandomValue(randomType) on the stream rnd
RunGenerateRandomValue ==
    /\ call = "generateRandomValue" /\ pc = "ready"
    /\ rt' = [rt EXCEPT !.value = StringValue(generateRandomValue(rt.randomType, rt.rnd))]
    /\ pc' = "done"
    /\ UNCHANGED <<apis, call, idx, report, httpCalls, valCalls>>
    /\ UNCHANGED seqVars
    /\ UNCHANGED concVars

(* -------------------- HTTPClient.Do called on its own ------------------- *)

\* what a field of a request body can hold, nil included
FieldValues ==
    << StringValue("123"), IntValue(123), Int64Value(123), Float64Value(1230),
       Float64Value(125), BoolValue(TRUE), SliceValue(<<>>), MapValue(EmptyMap), Nil >>

\* request bodies: none, one that is not an object, an empty object, nested
\* objects, and objects whose id holds each of FieldValues
RequestBodies ==
    << Nil,
       StringValue("raw"),
       MapValue(EmptyMap),
       MapValue([extend |-> MapValue([source |-> StringValue("web")])]),
       MapValue([extend |-> StringValue("web")]),
       MapValue([id |-> IntValue(123),
                 extend |-> MapValue([source |-> StringValue("web")])]) >>
    \o [k \in 1..Len(FieldValues) |-> MapValue([id |-> FieldValues[k]])]

\* the type names of validateFieldType's switch, and one it does not know
FieldTypes ==
    {"int", "float", "float64", "string", "bool", "boolean", "array", "slice",
     "object", "map", "number"}

\* body_schema: absent, one field of each type, a nested field, two fields
BodySchemas ==
    {NoSchema}
    \cup {[f \in {"id"} |-> type] : type \in FieldTypes}
    \cup {[f \in {"extend.source"} |-> "string"],
          [f \in {"id", "extend.source"} |-> IF f = "id" THEN "int" ELSE "string"]}

\* the request configurations Do is called with
ClientRequests ==
    [b \in Indices(RequestBodies) |->
        { RequestConfig("POST", "/x", Nil, Nil, RequestBodies[b], schema) :
            schema \in BodySchemas }]

InitClient ==
    \E b \in Indices(RequestBodies) : \E reqConfig \in ClientRequests[b] :
        /\ apis = <<APITest(TestNames[1], 0, "", 0)>>
        /\ call = "Do"
        /\ pc = "ready"
        /\ executionOrder = <<>>
        /\ idx = 0
        /\ results = EmptyMap
        /\ report = Nil
        /\ httpCalls = NoCalls
        /\ valCalls = NoCalls
        /\ maxConcurrency = 0
        /\ semaphore = 0
        /\ wg = 0
        /\ upc = NoUnits
        /\ uresult = NoUnitResults
        /\ rt = [reqConfig |-> reqConfig, reply |-> Nil, resp |-> Nil]

\* c.Do(reqConfig): reply is what the transport and the server make of the
\* request if it is sent
RunDo ==
    /\ call = "Do" /\ pc = "ready"
    /\ \E reply \in ClientOutcomes :
          rt' = [rt EXCEPT !.reply = reply, !.resp = Do(rt.reqConfig, reply)]
    /\ pc' = "done"
    /\ UNCHANGED <<apis, call, idx, report, httpCalls, valCalls>>
    /\ UNCHANGED seqVars
    /\ UNCHANGED concVars

(* ------------ executeAPITest called on a request with a schema ---------- *)

\* executeAPITest is called for one test whose request has a body and a
\* body_schema out of ClientRequests, with max_retries from 0 up
InitSchemaRetry ==
    \E m \in 0..MaxRetries :
    \E b \in Indices(RequestBodies) : \E reqConfig \in ClientRequests[b] :
        /\ Constructed(<<[APITest(TestNames[1], 0, "", m) EXCEPT !.Request = reqConfig]>>,
                       "executeAPITest")
        /\ maxConcurrency = 0

(* ---------------- convertToSchemaType called on its own ----------------- *)

\* an operation of the executor called directly on the input rt
CalledDirectly(name, input) ==
    /\ apis = <<APITest(TestNames[1], 0, "", 0)>>
    /\ call = name
    /\ pc = "ready"
    /\ executionOrder = <<>>
    /\ idx = 0
    /\ results = EmptyMap
    /\ report = Nil
    /\ httpCalls = NoCalls
    /\ valCalls = NoCalls
    /\ maxConcurrency = 0
    /\ semaphore = 0
    /\ wg = 0
    /\ upc = NoUnits
    /\ uresult = NoUnitResults
    /\ rt = input

\* the values convertToSchemaType is given: those of FieldValues, fractions
\* below one and below zero, and strings that are not integers
ConvertValues ==
    FieldValues \o << Float64Value(5), Float64Value(0 - 125), Float64Value(0 - 1230),
                      StringValue("abc"), StringValue("12.5") >>

\* the type names of convertToSchemaType's switch, and one it does not know
ConvertTypes == {"int", "float", "float64", "string", "bool", "boolean", "number", "array"}

InitConvert ==
    \E k \in DOMAIN ConvertValues, expectedType \in ConvertTypes :
        CalledDirectly("convertToSchemaType",
                       [value |-> ConvertValues[k], expectedType |-> expectedType,
                        converted |-> Nil])

\* e.convertToSchemaType(value, expectedType)
RunConvertToSchemaType ==
    /\ call = "convertToSchemaType" /\ pc = "ready"
    /\ rt' = [rt EXCEPT !.converted = convertToSchemaType(rt.value, rt.expectedType)]
    /\ pc' = "done"
    /\ UNCHANGED <<apis, call, idx, report, httpCalls, valCalls>>
    /\ UNCHANGED seqVars
    /\ UNCHANGED concVars

(* ---------------- extractFieldValue called on its own ------------------- *)

\* the longest path built from every combination of the characters
MaxPathLen == 4

\* the characters of the exhaustive paths: a letter, the separators, a digit
\* and a multi-byte rune
PathRunes == {"a", ".", "[", "]", "0", "~"}

\* every string of n of these characters
RECURSIVE PathsOfLen(_)
PathsOfLen(n) ==
    IF n = 0 THEN {""} ELSE {p \o ch : p \in PathsOfLen(n - 1), ch \in PathRunes}

\* the field paths: every short one, and paths into the modelled bodies
FieldPaths ==
    UNION {PathsOfLen(n) : n \in 0..MaxPathLen}
    \cup {"data", "data.id", "data[0]", "data[0].id", "data[1]", "data[1].id",
          "data[-1]", "data[+0]", "data[x]", "data[x].id", "data.user.id",
          "data.~", "data.id~", "~.id", "data[0].~", "a[0].a", "a[0].~a"}

\* the bodies the paths are applied to
FieldBodies ==
    ResponseBodies
    \o << MapValue([a |-> SliceValue(<<MapValue([a |-> StringValue("x")])>>)]),
          MapValue([a |-> MapValue([a |-> StringValue("x")])]) >>

InitExtract ==
    \E b \in DOMAIN FieldBodies, fieldPath \in FieldPaths :
        CalledDirectly("extractFieldValue",
                       [body |-> FieldBodies[b], fieldPath |-> fieldPath,
                        parts |-> <<>>, value |-> Nil])

\* e.extractFieldValue(body, fieldPath), which parses the path first
RunExtractFieldValue ==
    /\ call = "extractFieldValue" /\ pc = "ready"
    /\ rt' = [rt EXCEPT !.parts = parseFieldPath(rt.fieldPath),
                        !.value = extractFieldValue(rt.body, rt.fieldPath)]
    /\ pc' = "done"
    /\ UNCHANGED <<apis, call, idx, report, httpCalls, valCalls>>
    /\ UNCHANGED seqVars
    /\ UNCHANGED concVars

(* --------------------------- specifications ---------------------------- *)

Init == InitExecute \/ InitConcurrent

Next == NextExecute \/ NextConcurrent

\* a run of the executor in either mode
Spec == Init /\ [][Next]_vars

\* sequential mode
ExecuteSpec == InitExecute /\ [][NextExecute]_vars

\* sequential mode on templated requests
TemplateSpec == InitTemplate /\ [][NextExecute]_vars

\* the goroutine running Execute keeps being scheduled
FairExecuteSpec == ExecuteSpec /\ WF_vars(NextExecute)

\* concurrent mode
ConcurrentSpec == InitConcurrent /\ [][NextConcurrent]_vars

\* the calling goroutine and every spawned goroutine keep being scheduled, and
\* every HTTP call returns
FairConcurrentSpec ==
    /\ ConcurrentSpec
    /\ WF_vars(ConcurrentBegin \/ ConcurrentSpawn \/ ConcurrentReturn)
    /\ \A i \in 1..NumTests : WF_vars(Unit(i))

RetrySpec == InitRetry /\ [][RunExecuteAPITest]_vars

RootCauseSpec == InitRootCause /\ [][RunFindRootCause]_vars

RandomSpec == InitRandom /\ [][RunGenerateRandomValue]_vars

\* concurrent mode on requests that hold placeholders
ConcurrentTemplateSpec == InitConcurrentTemplate /\ [][NextConcurrent]_vars

\* concurrent mode under every retry policy
ConcurrentRetrySpec == InitConcurrentRetry /\ [][NextConcurrent]_vars

\* sequential mode under retry policies
ExecuteRetrySpec == InitExecuteRetry /\ [][NextExecute]_vars

\* Execute on requests that embed a map of a stored response
SharedSpec == InitShared /\ [][NextExecute]_vars

\* one call of convertToSchemaType
ConvertSpec == InitConvert /\ [][RunConvertToSchemaType]_vars

\* one call of extractFieldValue
ExtractSpec == InitExtract /\ [][RunExtractFieldValue]_vars

\* one call of the HTTP client
ClientSpec == InitClient /\ [][RunDo]_vars

\* one call of executeAPITest on a request that has a body_schema
SchemaRetrySpec == InitSchemaRetry /\ [][RunExecuteAPITest]_vars

RootCauseLoopSpec == InitRootCauseLoop /\ [][RootCauseLoopStep]_vars

\* the goroutine inside findRootCause keeps running: the loop never blocks
FairRootCauseLoopSpec == RootCauseLoopSpec /\ WF_vars(RootCauseLoopStep)

(* ------------------------ vocabulary of the claims ---------------------- *)

\* position of a configured name in the declared list
DeclIndex(name) == CHOOSE i \in 1..NumTests : TestNames[i] = name

\* the depends_on a configured test declares ("" for any other name)
DepName(name) == IF name \in ConfiguredNames THEN apis[DeclIndex(name)].DependsOn ELSE ""

\* the configured tests reached from name in 1..k depends_on steps
RECURSIVE DependenciesWithin(_, _)
DependenciesWithin(name, k) ==
    IF k = 0 \/ DepName(name) \notin ConfiguredNames THEN {}
    ELSE {DepName(name)} \cup DependenciesWithin(DepName(name), k - 1)

\* no test is a direct or transitive dependency of itself
Acyclic == \A n \in ConfiguredNames : n \notin DependenciesWithin(n, NumTests)

\* position of a name in a list of tests or results
PosIn(list, name) == CHOOSE i \in Indices(list) : list[i].Name = name

\* the list holds every configured test exactly once
HoldsEachOnce(list) ==
    /\ Len(list) = NumTests
    /\ \A n \in ConfiguredNames : Cardinality({i \in Indices(list) : list[i].Name = n}) = 1

\* Execute has computed its execution order
Ordered == call = "Execute" /\ pc \in {"loop", "done"}

Passes(outcome) == ~outcome.err /\ outcome.valid

(* -------------------------------- C1 ----------------------------------- *)

\* the dependency's stored result lets a dependent test through
DepPassed(name) ==
    /\ DepName(name) \in DOMAIN results
    /\ results[DepName(name)].Passed
    /\ ~results[DepName(name)].Skipped

\* the loop iteration for this test is being taken
Reached(name) ==
    /\ call = "Execute" /\ pc = "loop" /\ idx <= Len(executionOrder)
    /\ executionOrder[idx].Name = name
    /\ idx' = idx + 1

\* C1: in sequential mode a test that declares depends_on gets an HTTP client
\* (or validator) call only in a step taken while the Result Store holds a
\* passed, non-skipped result for its dependency; reached in any other store it
\* is recorded as skipped and neither the client nor the validator is called.
C1_DependencyGate ==
    [][\A n \in ConfiguredNames :
         DepName(n) # "" =>
            /\ (httpCalls'[n] > httpCalls[n] \/ valCalls'[n] > valCalls[n]) => DepPassed(n)
            /\ (Reached(n) /\ ~DepPassed(n)) =>
                    /\ results'[n].Skipped /\ ~results'[n].Passed
                    /\ report'.Results[Len(report'.Results)] = results'[n]
                    /\ report'.SkippedTests = report.SkippedTests + 1
                    /\ httpCalls'[n] = httpCalls[n]
                    /\ valCalls'[n] = valCalls[n]
      ]_vars

\* a run in which one dependent test was executed and another was skipped
C1_Witness ==
    /\ call = "Execute" /\ pc = "done"
    /\ \E n, m \in ConfiguredNames :
        /\ DepName(n) # "" /\ httpCalls[n] > 0 /\ ~results[n].Skipped
        /\ DepName(m) # "" /\ httpCalls[m] = 0 /\ results[m].Skipped

(* -------------------------------- C2 ----------------------------------- *)

\* C2: when the depends_on graph has no cycle, every test whose depends_on
\* names a configured test comes strictly after that test in the execution
\* order Execute uses, whatever the weights are.
C2_DependencyFirst ==
    (Ordered /\ Acyclic) =>
        \A n \in ConfiguredNames :
            DepName(n) \in ConfiguredNames =>
                PosIn(executionOrder, DepName(n)) < PosIn(executionOrder, n)

\* an acyclic configuration whose weight-sorted list has a dependency after
\* its dependent, so that the resolution had to move it
C2_Witness ==
    /\ Ordered /\ Acyclic
    /\ \E n \in ConfiguredNames :
        /\ DepName(n) \in ConfiguredNames
        /\ PosIn(sortAPIsByWeight(apis), n) < PosIn(sortAPIsByWeight(apis), DepName(n))
        /\ apis[DeclIndex(n)].Weight > apis[DeclIndex(DepName(n))].Weight

(* -------------------------------- C3 ----------------------------------- *)

NoDependencies == \A i \in 1..NumTests : apis[i].DependsOn = ""

\* C3: when no test declares depends_on, the sequential execution order is the
\* declared list sorted by weight descending, equal weights in declaration
\* order, and the results are reported in that order.
C3_WeightOrder ==
    (Ordered /\ NoDependencies) =>
        /\ HoldsEachOnce(executionOrder)
        /\ \A i, j \in Indices(executionOrder) :
              i < j =>
                 \/ executionOrder[i].Weight > executionOrder[j].Weight
                 \/ /\ executionOrder[i].Weight = executionOrder[j].Weight
                    /\ DeclIndex(executionOrder[i].Name) < DeclIndex(executionOrder[j].Name)
        /\ \A k \in Indices(report.Results) :
              report.Results[k].Name = executionOrder[k].Name

\* a finished run without dependencies in which the sort moved a later, heavier
\* test in front of an earlier one and kept two equal weights in place
C3_Witness ==
    /\ call = "Execute" /\ pc = "done" /\ NoDependencies
    /\ executionOrder[1].Name # TestNames[1]
    /\ \E i, j \in Indices(executionOrder) :
          i < j /\ executionOrder[i].Weight = executionOrder[j].Weight

(* -------------------------------- C4 ----------------------------------- *)

\* the tests on a dependency cycle of length three
ThreeCycleNames ==
    {a \in ConfiguredNames :
        LET b == DepName(a)
            c == DepName(b)
        IN  /\ b \in ConfiguredNames /\ c \in ConfiguredNames
            /\ a # b /\ b # c /\ a # c
            /\ DepName(c) = a}

\* C4: with a three-test dependency cycle in the configuration, whatever the
\* weights and the declaration order, Execute produces an order holding every
\* test once and returns, every test of the cycle has a skipped result and no
\* HTTP request was issued for any of them.
C4_ThreeCycleSkipped ==
    (call = "Execute" /\ ThreeCycleNames # {}) =>
        <>( /\ pc = "done"
            /\ HoldsEachOnce(executionOrder)
            /\ \A n \in ThreeCycleNames :
                  /\ n \in DOMAIN results
                  /\ results[n].Skipped /\ ~results[n].Passed
                  /\ httpCalls[n] = 0 /\ valCalls[n] = 0 )

\* a finished run over a three-cycle whose heaviest test is not declared first
C4_Witness ==
    /\ call = "Execute" /\ pc = "done"
    /\ Cardinality(ThreeCycleNames) = 3
    /\ executionOrder[1].Name # TestNames[1]
    /\ \A n \in ThreeCycleNames : results[n].Skipped

(* -------------------------------- C5 ----------------------------------- *)

\* C5: when Execute, or ExecuteConcurrent with a worker limit of at least 1,
\* has returned, the report holds exactly one result per configured test and
\* TotalTests = number of tests = len(Results) = Passed + Failed + Skipped.
C5_ReportComplete ==
    (pc = "done" /\ (call = "Execute" \/ (call = "ExecuteConcurrent" /\ maxConcurrency >= 1))) =>
        /\ HoldsEachOnce(report.Results)
        /\ report.TotalTests = Len(apis)
        /\ report.TotalTests = Len(report.Results)
        /\ report.TotalTests = report.PassedTests + report.FailedTests + report.SkippedTests

\* a returned sequential run that had a failing and a skipped test, and a test
\* that still ran after them
C5_Witness ==
    /\ call = "Execute" /\ pc = "done"
    /\ report.FailedTests > 0 /\ report.SkippedTests > 0
    /\ report.Results[Len(report.Results)].Passed

(* -------------------------------- C6 ----------------------------------- *)

\* the retry policy and the name of the test executeAPITest is called on
RetryMax == apis[1].RetryPolicy.MaxRetries
RetryName == apis[1].Name

\* executeAPITest, called on its own, has returned
Returned == call = "executeAPITest" /\ pc = "done"

\* attempt k is the first whose response passes validation
FirstPassAt(k) ==
    /\ \A j \in 1..(k - 1) : ~Passes(rt.outs[j])
    /\ Passes(rt.outs[k])

\* C6: with max_retries = m > 0, if attempts 1..k-1 (k <= m+1) fail, by
\* transport error or failed validation, and attempt k passes validation, the
\* client has been called exactly k times and the result has Passed = true and
\* RetryCount = k-1.
C6_RetryUntilPass ==
    (Returned /\ RetryMax > 0) =>
        \A k \in 1..(RetryMax + 1) :
            FirstPassAt(k) =>
                /\ httpCalls[RetryName] = k
                /\ rt.result.Passed
                /\ rt.result.RetryCount = k - 1

\* max_retries = 2, transport failures on attempts 1 and 2, attempt 3 passes
C6_Witness ==
    /\ Returned /\ RetryMax = 2
    /\ rt.outs[1].err /\ rt.outs[2].err /\ Passes(rt.outs[3])
    /\ rt.result.RetryCount = 2 /\ rt.result.Passed

(* -------------------------------- C7 ----------------------------------- *)

\* C7: for every integer max_retries, a test that never passes is attempted
\* max_retries + 1 times when max_retries > 0 and exactly once otherwise.
C7_AttemptCount ==
    (Returned /\ \A j \in DOMAIN rt.outs : ~Passes(rt.outs[j])) =>
        httpCalls[RetryName] = IF RetryMax > 0 THEN RetryMax + 1 ELSE 1

(* -------------------------------- C8 ----------------------------------- *)

\* the goroutines that hold a token of the semaphore
GateHolders == {i \in 1..NumTests : upc[i] \in {"execute", "record", "release"}}

\* the goroutines inside executeAPITest (request or retry sleep in flight)
InFlight == {i \in 1..NumTests : upc[i] = "execute"}

\* C8: in ExecuteConcurrent(W) with W >= 1 at most W goroutines hold the
\* admission gate in any reachable state, so at most W requests are in flight.
C8_GateBound ==
    (call = "ExecuteConcurrent" /\ maxConcurrency >= 1) =>
        /\ Cardinality(GateHolders) <= maxConcurrency
        /\ Cardinality(InFlight) <= maxConcurrency

\* the gate is full with two requests in flight while a third goroutine waits
C8_Witness ==
    /\ call = "ExecuteConcurrent" /\ maxConcurrency = 2
    /\ Cardinality(InFlight) = 2
    /\ \E i \in 1..NumTests : upc[i] = "acquire"

(* -------------------------------- C9 ----------------------------------- *)

\* C9: ExecuteConcurrent(W) with W >= 1, every HTTP call returning, eventually
\* returns; and whenever it has returned (EndTime set), every spawned goroutine
\* has recorded its result and released the gate.
C9_WaitsForAll ==
    /\ (call = "ExecuteConcurrent" /\ maxConcurrency >= 1) => <>(pc = "done")
    /\ []((call = "ExecuteConcurrent" /\ pc = "done") =>
            /\ report.EndTime = "set"
            /\ \A i \in 1..NumTests : upc[i] = "exited"
            /\ semaphore = 0
            /\ HoldsEachOnce(report.Results))

\* ExecuteConcurrent has returned after running more tests than the gate admits
C9_Witness ==
    /\ call = "ExecuteConcurrent" /\ pc = "done"
    /\ maxConcurrency >= 1 /\ maxConcurrency < NumTests
    /\ Len(report.Results) = NumTests

(* -------------------------------- C10 ---------------------------------- *)

\* from name, following depends_on through at most k stored skipped results,
\* one arrives at root
SkipChain(name, root, k) ==
    LET RECURSIVE Walk(_, _)
        Walk(n, left) ==
            /\ left > 0
            /\ n \in DOMAIN results
            /\ results[n].Skipped
            /\ (DepName(n) = root \/ Walk(DepName(n), left - 1))
    IN  Walk(name, k)

\* C10: when test A has a stored failed, non-skipped result and every later
\* test of a dependency chain down to A has a stored skipped result,
\* findRootCause started from any skipped test of the chain returns A.
C10_RootCauseOfChain ==
    (call = "findRootCause" /\ pc = "done") =>
        \A root, name \in ConfiguredNames :
            ( /\ root \in DOMAIN results
              /\ ~results[root].Passed /\ ~results[root].Skipped
              /\ SkipChain(name, root, NumTests) ) => rt[name] = root

\* A failed, B (depends on A) and C (depends on B) skipped: both queries give A
C10_Witness ==
    /\ call = "findRootCause" /\ pc = "done"
    /\ \E a, b, c \in ConfiguredNames :
        /\ a # b /\ b # c /\ a # c
        /\ DepName(c) = b /\ DepName(b) = a
        /\ a \in DOMAIN results /\ ~results[a].Passed /\ ~results[a].Skipped
        /\ b \in DOMAIN results /\ results[b].Skipped
        /\ c \in DOMAIN results /\ results[c].Skipped
        /\ rt[c] = a /\ rt[b] = a

(* -------------------------------- C11 ---------------------------------- *)

\* the names the walk can reach from name: name and its dependencies
WalkNames(name) == {name} \cup DependenciesWithin(name, NumTests + 1)

\* every name the walk can reach from name is configured and has a stored
\* skipped result, so that the chain from name runs into a cycle
AllSkippedFrom(name) ==
    /\ name \in ConfiguredNames
    /\ \A n \in WalkNames(name) :
          /\ DepName(n) \in ConfiguredNames
          /\ n \in DOMAIN results /\ results[n].Skipped

\* the name lies on a depends_on cycle
OnCycle(name) == name \in DependenciesWithin(name, NumTests + 1)

\* C11: findRootCause returns for every Result Store and every depends_on
\* configuration; on a cyclic chain whose stored results are all skipped it
\* stops at a revisited name, which lies on the cycle; for a name without a
\* stored result it returns that name.
C11_WalkTerminates ==
    /\ (call = "findRootCause.loop") => <>(pc = "done")
    /\ []((call = "findRootCause.loop" /\ pc = "done") =>
            /\ rt.ret \in rt.visited
            /\ AllSkippedFrom(rt.testName) =>
                  /\ rt.stop = "revisited"
                  /\ rt.ret \in WalkNames(rt.testName)
                  /\ OnCycle(rt.ret)
            /\ rt.testName \notin DOMAIN results =>
                  /\ rt.ret = rt.testName /\ rt.stop = "noResult")

\* a walk once round a three-cycle of skipped results, back to its start
C11_Witness ==
    /\ call = "findRootCause.loop" /\ pc = "done"
    /\ AllSkippedFrom(rt.testName)
    /\ Cardinality(rt.visited) = 3
    /\ rt.stop = "revisited"

(* -------------------------------- C12 ---------------------------------- *)

\* the test name a placeholder refers to ("$random" for a random value)
PlaceholderName(group) == SplitN2(TrimSpace(group), ".")[1]

\* the placeholders of a text whose test name has no result in the store
UnresolvedIn(store, text) ==
    LET matches == FindAllStringSubmatch(text)
    IN  {k \in 1..Len(matches) :
            /\ ~HasPrefix(TrimSpace(matches[k].group), "$random")
            /\ PlaceholderName(matches[k].group) \notin DOMAIN store}

\* the text sent for a template holds every unresolved placeholder of the
\* template, and is the template itself when no placeholder of it resolves
KeepsUnresolved(store, text, sent) ==
    LET matches == FindAllStringSubmatch(text)
    IN  /\ \A k \in UnresolvedIn(store, text) : IndexFrom(sent, matches[k].text, 1) # 0
        /\ UnresolvedIn(store, text) = 1..Len(matches) => sent = text

\* the same for a value of a structured field, field by field
RECURSIVE KeepsUnresolvedValue(_, _, _)
KeepsUnresolvedValue(store, value, sent) ==
    IF IsType(value, "string")
    THEN UnresolvedIn(store, value.v) # {} =>
            IsType(sent, "string") /\ KeepsUnresolved(store, value.v, sent.v)
    ELSE IF IsType(value, "map")
    THEN /\ IsType(sent, "map")
         /\ DOMAIN sent.v = DOMAIN value.v
         /\ \A k \in DOMAIN value.v : KeepsUnresolvedValue(store, value.v[k], sent.v[k])
    ELSE TRUE

\* the request `sent` keeps the unresolved placeholders of the request template
RequestKeepsUnresolved(store, template, sent) ==
    /\ KeepsUnresolved(store, template.Path, sent.Path)
    /\ template.Headers # Nil =>
          \A k \in DOMAIN template.Headers :
              KeepsUnresolved(store, template.Headers[k], sent.Headers[k])
    /\ template.Query # Nil =>
          KeepsUnresolvedValue(store, MapValue(template.Query), MapValue(sent.Query))
    /\ KeepsUnresolvedValue(store, template.Body, sent.Body)

\* some text of the request template has an unresolved placeholder
HasUnresolved(store, template) ==
    \/ UnresolvedIn(store, template.Path) # {}
    \/ IF template.Headers = Nil THEN FALSE
       ELSE \E k \in DOMAIN template.Headers : UnresolvedIn(store, template.Headers[k]) # {}
    \/ IF template.Query = Nil THEN FALSE
       ELSE \E k \in DOMAIN template.Query :
               IsType(template.Query[k], "string")
                 /\ UnresolvedIn(store, template.Query[k].v) # {}
    \/ IF IsType(template.Body, "map")
       THEN \E k \in DOMAIN template.Body.v :
               IsType(template.Body.v[k], "string")
                 /\ UnresolvedIn(store, template.Body.v[k].v) # {}
       ELSE FALSE

\* C12: in sequential mode, when a test is executed, every placeholder of its
\* request template whose test name has no result in the Result Store is in
\* the request passed to the client as the same literal text, in the path, a
\* header, a query value or a body field, alone or within other text; a field
\* none of whose placeholders resolves is passed on unchanged.
C12_UnresolvedKept ==
    [][\A n \in ConfiguredNames :
          (Reached(n) /\ httpCalls'[n] > httpCalls[n]) =>
              RequestKeepsUnresolved(results, executionOrder[idx].Request,
                                     results'[n].Request)
      ]_vars

\* the second test was sent and answered with the first test's id in its path
\* and, next to it, the placeholder of the unconfigured name as written
C12_Witness ==
    /\ call = "Execute" /\ pc = "done"
    /\ TestNames[2] \in DOMAIN results
    /\ results[TestNames[2]].Response # Nil
    /\ results[TestNames[2]].Request.Path = "/items/123/" \o RefMissing
    /\ HasUnresolved(EmptyMap, apis[2].Request)

(* -------------------------------- C13 ---------------------------------- *)

\* the first and the second configured test
Producer == TestNames[1]
Consumer == TestNames[2]

\* data.id of the first test's stored response body, Nil when there is none
StoredID ==
    IF Producer \notin DOMAIN results THEN Nil
    ELSE IF results[Producer].Response = Nil THEN Nil
    ELSE LET body == results[Producer].Response.BodyJSON
         IN  IF "data" \notin DOMAIN body.v THEN Nil
             ELSE IF ~IsType(body.v.data, "map") THEN Nil
             ELSE IF "id" \notin DOMAIN body.v.data.v THEN Nil
             ELSE body.v.data.v.id

\* the value is a string of decimal digits or a whole number
IntegerLike(value) ==
    \/ IsType(value, "string") /\ AllDigits(value.v)
    \/ IsType(value, "float64") /\ value.v % 10 = 0

\* the integer such a value stands for
IntegerOf(value) == IF value.t = "string" THEN DigitsValue(value.v) ELSE value.v \div 10

\* the second test was executed on the body {"id": "{{<first>.response.data.id}}"}
\* and the schema {id: int}
ConsumerRanTypedID ==
    /\ call = "Execute"
    /\ Consumer \in DOMAIN results /\ ~results[Consumer].Skipped
    /\ httpCalls[Consumer] > 0
    /\ apis[2].Request.Body = BodyID(RefID)
    /\ apis[2].Request.BodySchema = [id |-> "int"]

\* C13: when the stored response body of the first test has data.id equal to a
\* decimal-integer string ("123") or a whole number, a test run in sequential
\* mode with body {"id": "{{<first>.response.data.id}}"} and body_schema
\* {id: int} passes to the client a body whose id is that integer.
C13_IDSentAsInteger ==
    (ConsumerRanTypedID /\ IntegerLike(StoredID)) =>
        LET id == results[Consumer].Request.Body.v.id
        IN  id.t = "int" /\ id.v = IntegerOf(StoredID)

\* the first test passed with data.id = "123"; the second, which depends on
\* it, was sent with id = 123 and was answered
C13_Witness ==
    /\ ConsumerRanTypedID /\ pc = "done"
    /\ apis[2].DependsOn = Producer
    /\ results[Producer].Passed
    /\ IsType(StoredID, "string") /\ StoredID.v = "123"
    /\ results[Consumer].Response # Nil
    /\ results[Consumer].Request.Body.v.id.t = "int"
    /\ results[Consumer].Request.Body.v.id.v = 123

(* -------------------------------- C14 ---------------------------------- *)

\* the parameter of the placeholder: its third dot-separated segment, "" when
\* there is none
RandomParam ==
    IF Len(Split(rt.randomType, ".")) >= 3 THEN Split(rt.randomType, ".")[3] ELSE ""

\* the digit count the claim assigns to the placeholder: N for a parameter
\* that is the decimal number N >= 1 (written with or without a + sign), 6
\* otherwise
ClaimedDigits ==
    LET unsigned == IF At(RandomParam, 1) = "+" THEN Sub(RandomParam, 2, Len(RandomParam))
                    ELSE RandomParam
    IN  IF AllDigits(unsigned) /\ DigitsValue(unsigned) >= 1
        THEN DigitsValue(unsigned)
        ELSE 6

\* a string of exactly n decimal digits whose first digit is not 0
IsNumberOfDigits(text, n) ==
    /\ Len(text) = n
    /\ \A i \in 1..Len(text) : At(text, i) \in {Digits[d] : d \in 1..10}
    /\ At(text, 1) # "0"

\* C14: for every outcome of the random source, {{$random.number.N}} with
\* N >= 1 gives exactly N decimal digits the first of which is not 0, and a
\* placeholder whose N is absent, not a number or not positive gives exactly 6
\* such digits.
C14_RandomNumberDigits ==
    (call = "generateRandomValue" /\ pc = "done") =>
        IsNumberOfDigits(rt.value.v, ClaimedDigits)

\* {{$random.number.4}} on a stream whose first draw is 0: the digit is redrawn
C14_Witness ==
    /\ call = "generateRandomValue" /\ pc = "done"
    /\ rt.randomType = "$random.number.4"
    /\ rt.rnd[1] = 0
    /\ Len(rt.value.v) = 4 /\ At(rt.value.v, 1) # "0"

(* -------------------------------- C15 ---------------------------------- *)

\* neither test is a direct or transitive dependency of the other
Unconstrained(n, m) ==
    /\ n # m
    /\ n \notin DependenciesWithin(m, NumTests)
    /\ m \notin DependenciesWithin(n, NumTests)

\* rule (b) for a pair of tests: the heavier one first, equal weights in
\* declaration order
WeightOrdered(list, n, m) ==
    LET a == apis[DeclIndex(n)]
        b == apis[DeclIndex(m)]
    IN  (\/ a.Weight > b.Weight
         \/ a.Weight = b.Weight /\ DeclIndex(n) < DeclIndex(m))
            => PosIn(list, n) < PosIn(list, m)

IsDependency(n) == \E m \in ConfiguredNames : DepName(m) = n

RECURSIVE FieldAt(_, _)
FieldAt(value, path) ==
    LET dot == IndexFrom(path, ".", 1)
        key == IF dot = 0 THEN path ELSE Sub(path, 1, dot - 1)
    IN  IF ~IsType(value, "map") THEN [present |-> FALSE, value |-> Nil]
        ELSE IF key \notin DOMAIN value.v THEN [present |-> FALSE, value |-> Nil]
        ELSE IF dot = 0 THEN [present |-> TRUE, value |-> value.v[key]]
        ELSE FieldAt(value.v[key], Sub(path, dot + 1, Len(path)))

\* the value is of the declared type, as body_schema means it: int takes the
\* integer types and a float that is a whole number
MatchesDeclared(value, type) ==
    IF type = "int"
    THEN value.t \in {"int", "int64"} \/ (value.t = "float64" /\ value.v % 10 = 0)
    ELSE IF type \in {"float", "float64"} THEN value.t = "float64"
    ELSE IF type = "string" THEN value.t = "string"
    ELSE IF type \in {"bool", "boolean"} THEN value.t = "bool"
    ELSE IF type \in {"array", "slice"} THEN value.t = "slice"
    ELSE IF type \in {"object", "map"} THEN value.t = "map"
    ELSE FALSE

\* a declared field that is missing from the body, nil, or of another type
BadField(body, schema, field) ==
    \/ ~FieldAt(body, field).present
    \/ FieldAt(body, field).value = Nil
    \/ /\ FieldAt(body, field).present
       /\ FieldAt(body, field).value # Nil
       /\ ~MatchesDeclared(FieldAt(body, field).value, schema[field])

\* Do has returned for a request with a body and a body_schema
DoReturnedChecked ==
    /\ call = "Do" /\ pc = "done"
    /\ DOMAIN rt.reqConfig.BodySchema # {}
    /\ rt.reqConfig.Body # Nil

HasCycle == \E n \in ConfiguredNames : n \in DependenciesWithin(n, NumTests)

\* the list is the declared list in stable weight-descending order
IsWeightSorted(list) ==
    /\ HoldsEachOnce(list)
    /\ \A i, j \in Indices(list) :
          i < j =>
             \/ list[i].Weight > list[j].Weight
             \/ /\ list[i].Weight = list[j].Weight
                /\ DeclIndex(list[i].Name) < DeclIndex(list[j].Name)
    /\ \A i \in Indices(list) : list[i] = apis[DeclIndex(list[i].Name)]

\* C17: when the depends_on graph has a cycle (a self-dependency included),
\* the order Execute uses is the weight-sorted list itself, every test once and
\* nothing of the depth-first output, and Execute runs through it to the end:
\* the report holds one result per test, in that order.
C17_CycleFallback ==
    (Ordered /\ HasCycle) =>
        /\ IsWeightSorted(executionOrder)
        /\ idx <= NumTests + 1
        /\ Len(report.Results) = idx - 1
        /\ \A k \in Indices(report.Results) :
              report.Results[k].Name = executionOrder[k].Name
        /\ pc = "done" => Len(report.Results) = NumTests

\* a finished run on a configuration with a cycle in which the first test, not
\* on the cycle, still stands before its dependency: the walk had appended both
\* in the other order before it met the cycle
C17_Witness ==
    /\ call = "Execute" /\ pc = "done" /\ HasCycle
    /\ \E n \in ConfiguredNames :
          /\ n \notin DependenciesWithin(n, NumTests)
          /\ DepName(n) \in ConfiguredNames
          /\ PosIn(executionOrder, n) < PosIn(executionOrder, DepName(n))
          /\ DepName(n) \notin DependenciesWithin(DepName(n), NumTests)
          /\ PosIn(executionOrder, n) = 1

(* -------------------------------- C18 ---------------------------------- *)

\* the request fails Do's pre-flight check: whatever the server would answer,
\* Do returns its validation error and sends nothing
PreflightFails(request) ==
    \A reply \in ClientOutcomes : Do(request, reply).err /\ ~Do(request, reply).sent

\* C18 as stated: a test whose request fails the pre-flight body-schema check
\* is not retried: executeAPITest calls the client exactly once and records
\* RetryCount = 0, whatever max_retries is.
C18_PreflightNotRetried ==
    (/\ call = "executeAPITest" /\ pc = "done"
     /\ PreflightFails(apis[1].Request))
        => /\ httpCalls[apis[1].Name] = 1
           /\ rt.result.RetryCount = 0

(* -------------------------------- C19 ---------------------------------- *)

\* ExecuteConcurrent has created its report
ConcurrentRunning == call = "ExecuteConcurrent" /\ pc \in {"spawn", "done"}

\* C19 as stated: in concurrent mode the request a unit passes to the client
\* has been through the Templating Engine, so no {{$random...}} placeholder is
\* left in the path, headers, query or body of a recorded result's request.
C19_ConcurrentTemplates ==
    ConcurrentRunning =>
        \A k \in Indices(report.Results) :
            ~RequestMentions(report.Results[k].Request, "{{$random")

(* -------------------------------- C20 ---------------------------------- *)

\* C20 as stated: once ExecuteConcurrent has returned, the Result Store holds
\* under every configured test name that test's result, the one the report
\* lists for it.
C20_ConcurrentStores ==
    (call = "ExecuteConcurrent" /\ pc = "done") =>
        \A n \in ConfiguredNames :
            /\ n \in DOMAIN results
            /\ \E k \in Indices(report.Results) : report.Results[k] = results[n]

(* -------------------------------- C21 ---------------------------------- *)

\* ExecuteConcurrent has returned
ConcurrentReturned == call = "ExecuteConcurrent" /\ pc = "done"

\* C21 as stated: when ExecuteConcurrent returns, the HTTP client has been
\* called for every configured test, whatever its depends_on and the result of
\* its dependency, and no result is skipped (SkippedTests = 0).
C21_ConcurrentRunsAll ==
    ConcurrentReturned =>
        /\ \A n \in ConfiguredNames : httpCalls[n] >= 1
        /\ report.SkippedTests = 0
        /\ \A k \in Indices(report.Results) : ~report.Results[k].Skipped

\* the same for the configurations whose max_retries are not negative
C21_NonNegativeRunsAll ==
    (\A i \in 1..NumTests : apis[i].RetryPolicy.MaxRetries >= 0) => C21_ConcurrentRunsAll

(* -------------------------------- C22 ---------------------------------- *)

\* the number of attempts executeAPITest made
Attempts == httpCalls[RetryName]

\* the attempts that ended in a transport error
FailedTransport == {j \in 1..Attempts : rt.outs[j].err}

\* the largest element of a non-empty set of numbers
Latest(S) == CHOOSE j \in S : \A k \in S : k <= j

\* executeAPITest has returned and none of its attempts passed validation
Exhausted == Returned /\ \A j \in 1..Attempts : ~Passes(rt.outs[j])

NamesRootCause(n) ==
    /\ n \in DOMAIN results
    /\ results[n].Skipped
    /\ Len(results[n].SkipReason) = 3

\* C23 as stated: the root cause a skipped result's reason names in sequential
\* mode is a test with a stored result that failed and was not skipped, never
\* a test without a stored result, a skipped test, or the skipped test itself.
C23_RootCauseFailed ==
    call = "Execute" =>
        \A n \in ConfiguredNames :
            NamesRootCause(n) =>
                LET root == results[n].SkipReason[3]
                IN  /\ root # n
                    /\ root \in DOMAIN results
                    /\ IF root \in DOMAIN results
                       THEN ~results[root].Passed /\ ~results[root].Skipped
                       ELSE FALSE

\* the same where every depends_on names a configured test and there is no cycle
C23_ConfiguredAcyclic ==
    (Acyclic /\ \A n \in ConfiguredNames : DepName(n) # MissingName) => C23_RootCauseFailed

(* ------------------------------- C24 ------------------------------------ *)

\* are two values the same: the kinds are compared before the contents
RECURSIVE SameValue(_, _)
SameValue(a, b) ==
    IF a = Nil \/ b = Nil THEN a = Nil /\ b = Nil
    ELSE IF a.t # b.t THEN FALSE
    ELSE IF a.t = "map"
    THEN /\ DOMAIN a.v = DOMAIN b.v
         /\ \A k \in DOMAIN a.v : SameValue(a.v[k], b.v[k])
    ELSE IF a.t = "slice"
    THEN /\ Len(a.v) = Len(b.v)
         /\ \A i \in 1..Len(a.v) : SameValue(a.v[i], b.v[i])
    ELSE a.v = b.v

\* do two results hold the same request body and the same response body
SameBodies(a, b) ==
    /\ SameValue(a.Request.Body, b.Request.Body)
    /\ IF a.Response = Nil \/ b.Response = Nil THEN a.Response = Nil /\ b.Response = Nil
       ELSE SameValue(a.Response.BodyJSON, b.Response.BodyJSON)

\* the schema declares a dotted path
DeclaresNested(apiTest) ==
    \E f \in DOMAIN apiTest.Request.BodySchema : Len(Split(f, ".")) > 1

\* C24: a stored result is never mutated after storeResult: no step of Execute
\* changes the request body or the response body of a result that is stored
C24_StoredNeverMutated ==
    [][\A n \in DOMAIN results : SameBodies(results'[n], results[n])]_vars

\* unless the test that runs declares a dotted path in its body_schema, the
\* step changes no stored result
C24_MutatedOnlyByNestedSchema ==
    [][(call = "Execute" /\ pc = "loop" /\ idx <= Len(executionOrder)
          /\ ~DeclaresNested(executionOrder[idx]))
       => \A n \in DOMAIN results : SameBodies(results'[n], results[n])]_vars

(* ------------------------------- C25 ------------------------------------ *)

\* convertToSchemaType has returned for a float64 and the type int
ConvertedFloatToInt ==
    /\ call = "convertToSchemaType" /\ pc = "done"
    /\ rt.expectedType = "int"
    /\ IsType(rt.value, "float64")

\* C25: with the type int, convertToSchemaType leaves a float64 that is not a
\* whole number unchanged (12.5 stays 12.5) and makes an integer of a float64
\* only when it is whole
C25_FractionUnchanged ==
    ConvertedFloatToInt =>
        IF IsWhole(rt.value.v)
        THEN SameValue(rt.converted, IntValue(rt.value.v \div 10))
        ELSE SameValue(rt.converted, rt.value)

\* what the code does: every float64 becomes the integer it truncates to
C25_FloatTruncated ==
    ConvertedFloatToInt => SameValue(rt.converted, IntValue(Truncate(rt.value.v)))

(* ------------------------------- C26 ------------------------------------ *)

\* does the text hold a bracket
HasBracket(s) == IndexFrom(s, "[", 1) # 0 \/ IndexFrom(s, "]", 1) # 0

\* a dot-separated segment is a plain name, or a name followed by one
\* bracket pair at its end
WellFormedSegment(seg) ==
    \/ ~HasBracket(seg)
    \/ /\ At(seg, Len(seg)) = "]"
       /\ ~HasBracket(Sub(seg, 1, IndexFrom(seg, "[", 1) - 1))
       /\ ~HasBracket(Sub(seg, IndexFrom(seg, "[", 1) + 1, Len(seg) - 1))
       /\ IndexFrom(seg, "[", 1) # 0

\* the parts a well-formed segment stands for: a field, an array access when
\* the bracket holds a non-negative integer, the plain field when it does not
SegmentParts(seg) ==
    IF seg = "" THEN <<>>
    ELSE IF ~HasBracket(seg) THEN <<fieldPathPart(seg, FALSE, 0)>>
    ELSE LET open == IndexFrom(seg, "[", 1)
             name == Sub(seg, 1, open - 1)
             index == Atoi(Sub(seg, open + 1, Len(seg) - 1))
         IN  IF ~index.err /\ index.v >= 0 THEN <<fieldPathPart(name, TRUE, index.v)>>
             ELSE IF name # "" THEN <<fieldPathPart(name, FALSE, 0)>>
             ELSE <<>>

\* the parts of the segments from the k-th on, in order
RECURSIVE PartsOfSegments(_, _)
PartsOfSegments(segs, k) ==
    IF k > Len(segs) THEN <<>> ELSE SegmentParts(segs[k]) \o PartsOfSegments(segs, k + 1)

\* every segment of the path is well formed
WellFormedPath(path) ==
    \A k \in 1..Len(Split(path, ".")) : WellFormedSegment(Split(path, ".")[k])

\* walking the parts from the k-th on meets a key the map does not have or an
\* index the array does not have
RECURSIVE MeetsAbsent(_, _, _)
MeetsAbsent(current, parts, k) ==
    IF k > Len(parts) THEN FALSE
    ELSE LET part == parts[k]
             field == IF part.name = "" THEN current
                      ELSE IF IsType(current, "map") /\ part.name \in DOMAIN current.v
                      THEN current.v[part.name] ELSE Nil
             next == IF ~part.isArray THEN field
                     ELSE IF IsType(field, "slice") /\ part.index < Len(field.v)
                     THEN field.v[part.index + 1] ELSE Nil
         IN  IF part.name # "" /\ IsType(current, "map") /\ part.name \notin DOMAIN current.v
             THEN TRUE
             ELSE IF part.isArray /\ IsType(field, "slice") /\ part.index >= Len(field.v)
             THEN TRUE
             ELSE IF next = Nil THEN FALSE
             ELSE MeetsAbsent(next, parts, k + 1)

\* extractFieldValue has returned for a path of well-formed segments
ExtractedWellFormed ==
    /\ call = "extractFieldValue" /\ pc = "done"
    /\ WellFormedPath(rt.fieldPath)

\* the parts are those of the dot-separated segments, the final one included,
\* and an absent key or an index out of range gives nil
PathParsedAndWalked ==
    /\ rt.parts = PartsOfSegments(Split(rt.fieldPath, "."), 1)
    /\ MeetsAbsent(rt.body, PartsOfSegments(Split(rt.fieldPath, "."), 1), 1)
          => rt.value = Nil

\* C26: parseFieldPath gives the dot-separated segments in order, a segment
\* followed by [n] as an array access, a segment with a malformed bracket as a
\* plain field, and always the final segment whatever its characters; and
\* extractFieldValue returns nil for an absent key or an index out of range
C26_PathSegments == ExtractedWellFormed => PathParsedAndWalked

\* the path ends in a single-byte character
EndsInOneByte(path) == path = "" \/ RuneLen(At(path, Len(path))) = 1

\* the same for the paths whose last character is a single byte
C26_OneByteFinal ==
    (ExtractedWellFormed /\ EndsInOneByte(rt.fieldPath)) => PathParsedAndWalked

(* ------------------------------- C27 ------------------------------------ *)

\* neither the test nor any of its direct or transitive dependencies is on a
\* cycle
ChainAcyclic(n) ==
    \A m \in {n} \cup DependenciesWithin(n, NumTests) :
        m \notin DependenciesWithin(m, NumTests)

\* Execute has returned, and the dependency of n is configured and passed
DependencyPassed(n) ==
    /\ call = "Execute" /\ pc = "done"
    /\ DepName(n) \in ConfiguredNames
    /\ results[DepName(n)].Passed

\* does the test d come before the test n in the weight-sorted order
SortsBefore(d, n) ==
    \/ apis[DeclIndex(d)].Weight > apis[DeclIndex(n)].Weight
    \/ /\ apis[DeclIndex(d)].Weight = apis[DeclIndex(n)].Weight
       /\ DeclIndex(d) < DeclIndex(n)

\* C27: a test whose own dependency chain is acyclic and whose dependency is
\* configured and passes is executed, not skipped, whatever cycle the other
\* tests form and wherever the dependency stands by weight or declaration
C27_CycleLocal ==
    \A n \in ConfiguredNames :
        (DependencyPassed(n) /\ ChainAcyclic(n)) => ~results[n].Skipped

\* the same where no test is on a cycle, or where the dependency comes first
\* in the weight-sorted order
C27_OrderedOrAcyclic ==
    \A n \in ConfiguredNames :
        (DependencyPassed(n) /\ (Acyclic \/ SortsBefore(DepName(n), n)))
            => ~results[n].Skipped

(* ------------------------------- C28 ------------------------------------ *)

\* the attempts that received a response
Received == {j \in 1..Attempts : ~rt.outs[j].err}

MaxRetriesOf(n) == apis[DeclIndex(n)].RetryPolicy.MaxRetries

\* a passed result was not skipped, has no Error, and has a Response and a
\* Validation that passed
PassedShape(r) ==
    r.Passed =>
        /\ ~r.Skipped
        /\ r.Error = Nil
        /\ r.Response # Nil
        /\ r.Validation # Nil /\ r.Validation.Passed

\* a skipped result did not pass and holds nothing of a request
SkippedShape(r) ==
    r.Skipped =>
        /\ ~r.Passed
        /\ r.StatusCode = 0
        /\ r.Response = Nil
        /\ r.Validation = Nil
        /\ r.RetryCount = 0

\* C29 as stated: every result of Execute, and so of executeAPITest, has the
\* shape of a passed or of a skipped result when it is one, and its RetryCount
\* never exceeds the test's max_retries
C29_ResultShape ==
    call = "Execute" =>
        \A n \in DOMAIN results :
            /\ PassedShape(results[n])
            /\ SkippedShape(results[n])
            /\ results[n].RetryCount <= MaxRetriesOf(n)

\* C29, amended: the same, with RetryCount bounded by max_retries when that is
\* positive and equal to 0 when it is zero or negative
C29_ShapeAndRetryBound ==
    call = "Execute" =>
        \A n \in DOMAIN results :
            /\ PassedShape(results[n])
            /\ SkippedShape(results[n])
            /\ results[n].RetryCount
                  <= (IF MaxRetriesOf(n) > 0 THEN MaxRetriesOf(n) ELSE 0)

\* the first test passed on its last retry and the second was skipped
C29_Witness ==
    /\ call = "Execute" /\ pc = "done"
    /\ results[TestNames[1]].Passed
    /\ results[TestNames[1]].RetryCount = MaxRetries
    /\ results[TestNames[2]].Skipped

(* ------------------------------- C30 ------------------------------------ *)

\* ExecuteConcurrent was called with the worker limit 0
ZeroWorkers == call = "ExecuteConcurrent" /\ maxConcurrency = 0

\* C30: ExecuteConcurrent(0) with at least one configured test is stuck: no
\* goroutine ever gets past the send on the semaphore, no HTTP request is
\* sent, and the call never returns
C30_ZeroWorkersStuck ==
    (ZeroWorkers /\ Len(apis) >= 1) =>
        /\ \A i \in 1..NumTests : upc[i] \in {"none", "acquire"}
        /\ \A n \in ConfiguredNames : httpCalls[n] = 0
        /\ IF report = Nil THEN TRUE ELSE Len(report.Results) = 0
        /\ pc # "done"

\* every goroutine is spawned and waits at the send, and the caller waits in
\* wg.Wait(): no step is possible
C30_Witness ==
    /\ ZeroWorkers
    /\ idx > Len(apis)
    /\ wg = NumTests
    /\ \A i \in 1..NumTests : upc[i] = "acquire"
    /\ ~ENABLED NextConcurrent

====
